---------------------------- MODULE Spec2Model ----------------------------
(***************************************************************************)
(* A model of the erc800claw Python SDK (sdk-python/erc800claw): the       *)
(* metadata codec, the network lookup and the metadata builder of          *)
(* contracts.py, the read and write paths of ERC8004Client in client.py    *)
(* and the commands of cli.py, run against a chain and an RPC transport    *)
(* that answer, revert or fail nondeterministically.                       *)
(*                                                                         *)
(* Text is a sequence of Unicode code points, bytes are a sequence of      *)
(* 0..255.  Python values are tagged records:                              *)
(*   [t |-> "null"]  [t |-> "bool", b]  [t |-> "int", n]  [t |-> "str", s] *)
(*   [t |-> "list", items]   [t |-> "dict", items] (a sequence of          *)
(*   <<key, value>> pairs in insertion order, keys distinct).              *)
(* A float the JSON parser reads is [t |-> "float", text]; the quotient of  *)
(* a true division is [t |-> "float", num, den], a fraction in lowest      *)
(* terms.  A score given to give_feedback is a binary64 float, m * 2^e     *)
(* with the 53 binary digits of m kept one by one.                         *)
(***************************************************************************)
EXTENDS Integers, Sequences, FiniteSets, TLC

-----------------------------------------------------------------------------
(* Bounds of the model *)

MaxStrLen == 2      \* longest string inside a metadata value
MaxItems == 2       \* most items of a list inside a metadata value
MaxTextLen == 3     \* longest decoded payload handed to parse_data_uri

-----------------------------------------------------------------------------
(* Sequences and text *)

Take(s, n) == SubSeq(s, 1, n)
Drop(s, n) == SubSeq(s, n + 1, Len(s))

\* s[i:j+1] of Python, 1-based and inclusive: a slice stops at the end of s
Slice(s, i, j) == SubSeq(s, i, IF j > Len(s) THEN Len(s) ELSE j)

\* str.startswith
StartsWith(s, p) == Len(s) >= Len(p) /\ SubSeq(s, 1, Len(p)) = p

RECURSIVE SeqsUpTo(_, _)
SeqsUpTo(S, n) ==
  IF n = 0 THEN {<< >>}
  ELSE LET shorter == SeqsUpTo(S, n - 1)
       IN  shorter \cup {Append(s, c) : s \in {x \in shorter : Len(x) = n - 1}, c \in S}

RECURSIVE Pow(_, _)
Pow(b, e) == IF e = 0 THEN 1 ELSE b * Pow(b, e - 1)

\* "data:application/json;base64,"
DataUriPrefix ==
  <<100, 97, 116, 97, 58, 97, 112, 112, 108, 105, 99, 97, 116, 105, 111, 110,
    47, 106, 115, 111, 110, 59, 98, 97, 115, 101, 54, 52, 44>>

-----------------------------------------------------------------------------
(* Python values *)

PyNone == [t |-> "null"]
PyBool(b) == [t |-> "bool", b |-> b]
PyInt(n) == [t |-> "int", n |-> n]
PyStr(s) == [t |-> "str", s |-> s]
PyList(items) == [t |-> "list", items |-> items]
PyDict(items) == [t |-> "dict", items |-> items]
\* a float the parser read, kept as the text it was read from
PyFloat(text) == [t |-> "float", text |-> text]

-----------------------------------------------------------------------------
(* json.dumps with its defaults: ensure_ascii, separators ", " and ": " *)

HexDigit(n) == IF n < 10 THEN 48 + n ELSE 87 + n

\* \uXXXX, four lower-case hex digits
U4(c) ==
  <<92, 117, HexDigit(c \div 4096), HexDigit((c \div 256) % 16),
    HexDigit((c \div 16) % 16), HexDigit(c % 16)>>

EscapeChar(c) ==
  IF c = 34 THEN <<92, 34>>
  ELSE IF c = 92 THEN <<92, 92>>
  ELSE IF c = 10 THEN <<92, 110>>
  ELSE IF c = 13 THEN <<92, 114>>
  ELSE IF c = 9 THEN <<92, 116>>
  ELSE IF c = 12 THEN <<92, 102>>
  ELSE IF c = 8 THEN <<92, 98>>
  ELSE IF c >= 32 /\ c <= 126 THEN <<c>>
  ELSE IF c < 65536 THEN U4(c)
  ELSE LET v == c - 65536
       IN  U4(55296 + (v \div 1024)) \o U4(56320 + (v % 1024))

RECURSIVE EscapeText(_)
EscapeText(s) ==
  IF s = << >> THEN << >>
  ELSE IF Len(s) = 1 THEN EscapeChar(s[1])
  ELSE LET half == Len(s) \div 2
       IN  EscapeText(Take(s, half)) \o EscapeText(Drop(s, half))

DumpStr(s) == <<34>> \o EscapeText(s) \o <<34>>

RECURSIVE Digits(_)
Digits(n) ==
  IF n < 10 THEN <<48 + n>> ELSE Append(Digits(n \div 10), 48 + (n % 10))

DumpInt(n) == IF n < 0 THEN <<45>> \o Digits(0 - n) ELSE Digits(n)

RECURSIVE Dumps(_), DumpItems(_), DumpPairs(_)
Dumps(v) ==
  CASE v.t = "null" -> <<110, 117, 108, 108>>
    [] v.t = "bool" -> IF v.b THEN <<116, 114, 117, 101>>
                       ELSE <<102, 97, 108, 115, 101>>
    [] v.t = "int"  -> DumpInt(v.n)
    [] v.t = "str"  -> DumpStr(v.s)
    [] v.t = "list" -> <<91>> \o DumpItems(v.items) \o <<93>>
    [] v.t = "dict" -> <<123>> \o DumpPairs(v.items) \o <<125>>

DumpItems(items) ==
  IF items = << >> THEN << >>
  ELSE IF Len(items) = 1 THEN Dumps(items[1])
  ELSE Dumps(items[1]) \o <<44, 32>> \o DumpItems(Tail(items))

DumpPairs(items) ==
  IF items = << >> THEN << >>
  ELSE LET one == DumpStr(items[1][1]) \o <<58, 32>> \o Dumps(items[1][2])
       IN  IF Len(items) = 1 THEN one
           ELSE one \o <<44, 32>> \o DumpPairs(Tail(items))

-----------------------------------------------------------------------------
(* str.encode('utf-8') and bytes.decode('utf-8') *)

Utf8Char(c) ==
  IF c < 128 THEN <<c>>
  ELSE IF c < 2048 THEN <<192 + (c \div 64), 128 + (c % 64)>>
  ELSE IF c < 65536
    THEN <<224 + (c \div 4096), 128 + ((c \div 64) % 64), 128 + (c % 64)>>
  ELSE <<240 + (c \div 262144), 128 + ((c \div 4096) % 64),
         128 + ((c \div 64) % 64), 128 + (c % 64)>>

RECURSIVE Utf8Encode(_)
Utf8Encode(s) ==
  IF s = << >> THEN << >>
  ELSE IF Len(s) = 1 THEN Utf8Char(s[1])
  ELSE LET half == Len(s) \div 2
       IN  Utf8Encode(Take(s, half)) \o Utf8Encode(Drop(s, half))

IsCont(b) == b >= 128 /\ b < 192

\* the first index from i on whose element is in S, Len(s) + 1 if there is none
FirstIn(s, i, S) ==
  CHOOSE j \in i..(Len(s) + 1) :
    /\ j = Len(s) + 1 \/ s[j] \in S
    /\ \A k \in i..(j - 1) : s[k] \notin S

\* the first index from i on whose element is below lo or above hi
FirstOutside(s, i, lo, hi) ==
  CHOOSE j \in i..(Len(s) + 1) :
    /\ j = Len(s) + 1 \/ s[j] < lo \/ s[j] > hi
    /\ \A k \in i..(j - 1) : s[k] >= lo /\ s[k] <= hi

\* [ok, text]: ok = FALSE is UnicodeDecodeError.  A run of ASCII bytes is
\* taken at once, then one multi-byte character.
RECURSIVE Utf8Decode(_)
Utf8Decode(bs) ==
  LET a == FirstOutside(bs, 1, 0, 127)
  IN
  IF a > Len(bs) THEN [ok |-> TRUE, text |-> bs]
  ELSE
    LET b == bs[a]
        n == IF b >= 194 /\ b < 224 THEN 2
             ELSE IF b >= 224 /\ b < 240 THEN 3
             ELSE IF b >= 240 /\ b < 245 THEN 4
             ELSE 0
        wellFormed ==
          /\ n > 0
          /\ Len(bs) >= a + n - 1
          /\ \A i \in 1..(n - 1) : IsCont(bs[a + i])
        c == IF n = 2 THEN (b - 192) * 64 + (bs[a + 1] - 128)
             ELSE IF n = 3
               THEN (b - 224) * 4096 + (bs[a + 1] - 128) * 64
                      + (bs[a + 2] - 128)
             ELSE (b - 240) * 262144 + (bs[a + 1] - 128) * 4096
                    + (bs[a + 2] - 128) * 64 + (bs[a + 3] - 128)
        inRange ==
          /\ n = 3 => c >= 2048 /\ ~(c >= 55296 /\ c < 57344)
          /\ n = 4 => c >= 65536 /\ c < 1114112
    IN  IF ~wellFormed \/ ~inRange THEN [ok |-> FALSE, text |-> << >>]
        ELSE LET rest == Utf8Decode(Drop(bs, a + n - 1))
             IN  IF rest.ok
                   THEN [ok |-> TRUE,
                         text |-> Take(bs, a - 1) \o <<c>> \o rest.text]
                 ELSE rest

-----------------------------------------------------------------------------
(* base64.b64encode and base64.b64decode (the lenient default: characters  *)
(* outside the alphabet are discarded, and input after a complete padding  *)
(* is ignored)                                                             *)

B64Char(i) ==
  IF i < 26 THEN 65 + i
  ELSE IF i < 52 THEN 97 + (i - 26)
  ELSE IF i < 62 THEN 48 + (i - 52)
  ELSE IF i = 62 THEN 43
  ELSE 47

\* the sextet of an alphabet character, 64 for any other character
B64Index(c) ==
  IF c >= 65 /\ c <= 90 THEN c - 65
  ELSE IF c >= 97 /\ c <= 122 THEN c - 97 + 26
  ELSE IF c >= 48 /\ c <= 57 THEN c - 48 + 52
  ELSE IF c = 43 THEN 62
  ELSE IF c = 47 THEN 63
  ELSE 64

\* four characters for every three bytes, the last group padded with "="
B64Encode(bs) ==
  LET n == Len(bs)
      At(k) == IF k <= n THEN bs[k] ELSE 0
  IN  [i \in 1..(4 * ((n + 2) \div 3)) |->
        LET g == 3 * ((i - 1) \div 4)
            r == (i - 1) % 4
        IN  IF r = 0 THEN B64Char(At(g + 1) \div 4)
            ELSE IF r = 1
              THEN B64Char((At(g + 1) % 4) * 16 + (At(g + 2) \div 16))
            ELSE IF r = 2
              THEN IF g + 2 > n THEN 61
                   ELSE B64Char((At(g + 2) % 16) * 4 + (At(g + 3) \div 64))
            ELSE IF g + 3 > n THEN 61 ELSE B64Char(At(g + 3) % 64)]

\* binascii.a2b_base64, not strict.  Characters outside the alphabet are
\* skipped.  A pad character met at position 3 of a quad, or as the second
\* pad in a row at position 2, ends the data and what follows is ignored;
\* any other pad is skipped.  Data that ends inside a quad without such
\* padding is an error.  [ok, bytes]: ok = FALSE is binascii.Error
B64Decode(s) ==
  LET t == SelectSeq(s, LAMBDA c : c = 61 \/ B64Index(c) < 64)
      pads == {k \in 1..Len(t) : t[k] = 61}
      QuadAt(k) == (k - 1 - Cardinality({j \in pads : j < k})) % 4
      stops == {k \in pads :
                  \/ QuadAt(k) = 3
                  \/ QuadAt(k) = 2 /\ k > 1 /\ t[k - 1] = 61}
      stopAt == IF stops = {} THEN Len(t) + 1
                ELSE CHOOSE k \in stops : \A j \in stops : k <= j
      data == SelectSeq(Take(t, stopAt - 1), LAMBDA c : c # 61)
      m == Len(data)
      D(k) == B64Index(data[k])
      nbytes == 3 * (m \div 4)
                  + (IF m % 4 = 2 THEN 1 ELSE IF m % 4 = 3 THEN 2 ELSE 0)
  IN  IF stops = {} /\ m % 4 # 0 THEN [ok |-> FALSE, bytes |-> << >>]
      ELSE [ok |-> TRUE,
            bytes |-> [b \in 1..nbytes |->
              LET g == 4 * ((b - 1) \div 3)
                  r == (b - 1) % 3
              IN  IF r = 0 THEN D(g + 1) * 4 + (D(g + 2) \div 16)
                  ELSE IF r = 1 THEN (D(g + 2) % 16) * 16 + (D(g + 3) \div 4)
                  ELSE (D(g + 3) % 4) * 64 + D(g + 4)]]

-----------------------------------------------------------------------------
(* json.loads: the decoder's scanner.  A parse step answers [ok, val, pos]; *)
(* pos is the index after what was read and ok = FALSE is JSONDecodeError.  *)
(* Number literals with a fraction or an exponent and the decoder's         *)
(* NaN / Infinity literals are floating point, outside the value domain.    *)

ParseFail == [ok |-> FALSE, val |-> PyNone, pos |-> 0]
ParseOk(v, p) == [ok |-> TRUE, val |-> v, pos |-> p]

IsWs(c) == c \in {32, 9, 10, 13}
IsDigit(c) == c >= 48 /\ c <= 57

RECURSIVE SkipWs(_, _)
SkipWs(s, i) == IF i <= Len(s) /\ IsWs(s[i]) THEN SkipWs(s, i + 1) ELSE i

HexVal(c) ==
  IF IsDigit(c) THEN c - 48
  ELSE IF c >= 97 /\ c <= 102 THEN c - 87
  ELSE IF c >= 65 /\ c <= 70 THEN c - 55
  ELSE -1

\* the four hex digits at s[i..i+3], or -1
Hex4(s, i) ==
  IF i + 3 > Len(s) \/ \E k \in 0..3 : HexVal(s[i + k]) < 0 THEN -1
  ELSE HexVal(s[i]) * 4096 + HexVal(s[i + 1]) * 256
         + HexVal(s[i + 2]) * 16 + HexVal(s[i + 3])

\* the character an escape letter stands for, or -1
Unescape(e) ==
  IF e \in {34, 92, 47} THEN e
  ELSE IF e = 98 THEN 8
  ELSE IF e = 102 THEN 12
  ELSE IF e = 110 THEN 10
  ELSE IF e = 114 THEN 13
  ELSE IF e = 116 THEN 9
  ELSE -1

\* scanstring (strict): i is the index after the opening quote.  A run of
\* characters up to the next quote, backslash or control character is taken
\* at once.
RECURSIVE ScanString(_, _, _)
ScanString(s, i, acc) ==
  LET e == FirstIn(s, i, {34, 92} \cup 0..31)
      run == acc \o SubSeq(s, i, e - 1)
  IN
  IF e > Len(s) THEN ParseFail
  ELSE IF s[e] = 34 THEN ParseOk(PyStr(run), e + 1)
  ELSE IF s[e] < 32 THEN ParseFail
  ELSE IF e + 1 > Len(s) THEN ParseFail
  ELSE IF s[e + 1] # 117
    THEN IF Unescape(s[e + 1]) < 0 THEN ParseFail
         ELSE ScanString(s, e + 2, Append(run, Unescape(s[e + 1])))
  ELSE
    LET u == Hex4(s, e + 2)
        pair == /\ u >= 55296 /\ u <= 56319
                /\ e + 7 <= Len(s) /\ s[e + 6] = 92 /\ s[e + 7] = 117
        u2 == Hex4(s, e + 8)
    IN  IF u < 0 THEN ParseFail
        ELSE IF ~pair THEN ScanString(s, e + 6, Append(run, u))
        ELSE IF u2 < 0 THEN ParseFail
        ELSE IF u2 >= 56320 /\ u2 <= 57343
          THEN ScanString(s, e + 12,
                 Append(run, 65536 + (u - 55296) * 1024 + (u2 - 56320)))
        ELSE ScanString(s, e + 6, Append(run, u))

RECURSIVE DigitsEnd(_, _)
DigitsEnd(s, i) ==
  IF i <= Len(s) /\ IsDigit(s[i]) THEN DigitsEnd(s, i + 1) ELSE i

RECURSIVE DigitsValue(_, _, _)
DigitsValue(s, i, j) ==
  IF i >= j THEN 0 ELSE DigitsValue(s, i, j - 1) * 10 + (s[j - 1] - 48)

\* NUMBER_RE, integer part: -?(0|[1-9][0-9]*)
ScanInt(s, i) ==
  LET neg == s[i] = 45
      d == IF neg THEN i + 1 ELSE i
      e == IF d <= Len(s) /\ s[d] = 48 THEN d + 1 ELSE DigitsEnd(s, d)
  IN  IF e = d THEN ParseFail
      ELSE ParseOk(PyInt(IF neg THEN 0 - DigitsValue(s, d, e)
                         ELSE DigitsValue(s, d, e)), e)

\* NUMBER_RE: an integer part, then (\.[0-9]+)? and ([eE][-+]?[0-9]+)?; with
\* either of the two the value is a float, without them an int
ScanNumber(s, i) ==
  LET int == ScanInt(s, i)
      f == int.pos
      x == IF f + 1 <= Len(s) /\ s[f] = 46 /\ IsDigit(s[f + 1])
             THEN DigitsEnd(s, f + 1) ELSE f
      d == IF x + 1 <= Len(s) /\ s[x] \in {101, 69}
             THEN (IF s[x + 1] \in {43, 45} THEN x + 2 ELSE x + 1)
           ELSE 0
      e == IF d > 0 /\ d <= Len(s) /\ IsDigit(s[d]) THEN DigitsEnd(s, d) ELSE x
  IN  IF ~int.ok THEN ParseFail
      ELSE IF e = f THEN int
      ELSE ParseOk(PyFloat(SubSeq(s, i, e - 1)), e)

NaNText == <<78, 97, 78>>
InfinityText == <<73, 110, 102, 105, 110, 105, 116, 121>>

\* dict(pairs): a repeated key keeps its place and takes the later value
DictSet(items, k, v) ==
  IF \E n \in 1..Len(items) : items[n][1] = k
    THEN [n \in 1..Len(items) |->
            IF items[n][1] = k THEN <<k, v>> ELSE items[n]]
  ELSE Append(items, <<k, v>>)

RECURSIVE ScanOnce(_, _), ArrayLoop(_, _, _), ObjectLoop(_, _, _)
\* scan_once: i is the index of the value's first character
ScanOnce(s, i) ==
  IF i > Len(s) THEN ParseFail
  ELSE IF s[i] = 34 THEN ScanString(s, i + 1, << >>)
  ELSE IF s[i] = 123
    THEN LET j == SkipWs(s, i + 1)
         IN  IF j > Len(s) THEN ParseFail
             ELSE IF s[j] = 125 THEN ParseOk(PyDict(<< >>), j + 1)
             ELSE IF s[j] # 34 THEN ParseFail
             ELSE ObjectLoop(s, j + 1, << >>)
  ELSE IF s[i] = 91
    THEN LET j == SkipWs(s, i + 1)
         IN  IF j <= Len(s) /\ s[j] = 93 THEN ParseOk(PyList(<< >>), j + 1)
             ELSE ArrayLoop(s, j, << >>)
  ELSE IF s[i] = 110 /\ Slice(s, i, i + 3) = <<110, 117, 108, 108>>
    THEN ParseOk(PyNone, i + 4)
  ELSE IF s[i] = 116 /\ Slice(s, i, i + 3) = <<116, 114, 117, 101>>
    THEN ParseOk(PyBool(TRUE), i + 4)
  ELSE IF s[i] = 102 /\ Slice(s, i, i + 4) = <<102, 97, 108, 115, 101>>
    THEN ParseOk(PyBool(FALSE), i + 5)
  ELSE IF ScanInt(s, i).ok THEN ScanNumber(s, i)
  ELSE IF Slice(s, i, i + 2) = NaNText THEN ParseOk(PyFloat(NaNText), i + 3)
  ELSE IF Slice(s, i, i + 7) = InfinityText
    THEN ParseOk(PyFloat(InfinityText), i + 8)
  ELSE IF Slice(s, i, i + 8) = <<45>> \o InfinityText
    THEN ParseOk(PyFloat(<<45>> \o InfinityText), i + 9)
  ELSE ParseFail

\* JSONArray: i is the index of the next element
ArrayLoop(s, i, acc) ==
  LET v == ScanOnce(s, i)
      j == SkipWs(s, v.pos)
  IN  IF ~v.ok \/ j > Len(s) THEN ParseFail
      ELSE IF s[j] = 93 THEN ParseOk(PyList(Append(acc, v.val)), j + 1)
      ELSE IF s[j] # 44 THEN ParseFail
      ELSE ArrayLoop(s, SkipWs(s, j + 1), Append(acc, v.val))

\* JSONObject: i is the index after the opening quote of the next key
ObjectLoop(s, i, acc) ==
  LET k == ScanString(s, i, << >>)
      c == SkipWs(s, k.pos)
      v == ScanOnce(s, SkipWs(s, c + 1))
      j == SkipWs(s, v.pos)
      n == SkipWs(s, j + 1)
  IN  IF ~k.ok \/ c > Len(s) THEN ParseFail
      ELSE IF s[c] # 58 THEN ParseFail
      ELSE IF ~v.ok \/ j > Len(s) THEN ParseFail
      ELSE IF s[j] = 125
        THEN ParseOk(PyDict(DictSet(acc, k.val.s, v.val)), j + 1)
      ELSE IF s[j] # 44 THEN ParseFail
      ELSE IF n > Len(s) THEN ParseFail
      ELSE IF s[n] # 34 THEN ParseFail
      ELSE ObjectLoop(s, n + 1, DictSet(acc, k.val.s, v.val))

\* JSONDecoder.decode: one value between optional whitespace, nothing after
Loads(s) ==
  LET v == ScanOnce(s, SkipWs(s, 1))
  IN  IF ~v.ok THEN ParseFail
      ELSE IF SkipWs(s, v.pos) # Len(s) + 1 THEN ParseFail
      ELSE v

-----------------------------------------------------------------------------
(* What a call gives its caller: a returned value or a raised exception *)

Return(v) == [kind |-> "return", val |-> v, err |-> "-"]
Raise(e) == [kind |-> "raise", val |-> PyNone, err |-> e]
NoResult == [kind |-> "none", val |-> PyNone, err |-> "-"]

-----------------------------------------------------------------------------
(* contracts.py: the data-URI codec *)

\* the encoder leaving out the "=" padding of the base64 text
create_data_uri_unpadded(metadata) ==
  DataUriPrefix \o SelectSeq(B64Encode(Utf8Encode(Dumps(metadata))),
                             LAMBDA c : c # 61)

create_data_uri(metadata) ==
  LET json_str == Dumps(metadata)
      b64 == B64Encode(Utf8Encode(json_str))
  IN  DataUriPrefix \o b64

\* json.loads(json_str), as an outcome
json_loads(json_str) ==
  LET json == Loads(json_str)
  IN  IF ~json.ok THEN Raise("JSONDecodeError") ELSE Return(json.val)

\* json.loads(json_str), given what the decoding of the bytes gave
loads_text(text) ==
  IF ~text.ok THEN Raise("UnicodeDecodeError") ELSE json_loads(text.text)

\* .decode("utf-8"), given what base64.b64decode gave
decode_bytes(raw) ==
  IF ~raw.ok THEN Raise("binascii.Error")
  ELSE loads_text(Utf8Decode(raw.bytes))

\* base64.b64decode(b64), which takes only ASCII text
decode_payload(b64) ==
  IF \E n \in 1..Len(b64) : b64[n] >= 128
    THEN Raise("ValueError: string argument should contain only ASCII characters")
  ELSE decode_bytes(B64Decode(b64))

parse_data_uri(data_uri) ==
  IF ~StartsWith(data_uri, DataUriPrefix)
    THEN Raise("ValueError: Invalid data URI format")
  ELSE decode_payload(Drop(data_uri, Len(DataUriPrefix)))

-----------------------------------------------------------------------------
(* State *)

VARIABLES
  codecMeta,    \* the metadata object last given to create_data_uri, or Nothing
  codecUri,     \* the URI last produced, or last given to parse_data_uri
  codecRes,     \* what parse_data_uri gave for codecUri, NoResult before the call
  network,      \* ERC8004Client.network, set by __init__
  hexPrefixed,  \* whether HexBytes.hex() of the installed library writes "0x"
  owner,        \* identity registry: agent id -> owner address, NoOwner if none
  tokenUri,     \* identity registry: agent id -> URI text
  nonce,        \* chain: address -> number of its mined transactions
  txs,          \* chain: the submitted transactions, indexed by hash
  feedback,     \* reputation registry: the feedback entries given
  pc,           \* per caller: where its write operation stands
  call,         \* per caller: the operation in progress or last finished
  loc,          \* per caller: the locals of the write path
  result,       \* per caller: what the last finished operation gave
  trace         \* per caller: the RPC and HTTP calls that operation made

codecVars == <<codecMeta, codecUri, codecRes>>
clientVars == <<network, hexPrefixed>>
chainVars == <<owner, tokenUri, nonce, txs, feedback>>
procVars == <<pc, call, loc, result, trace>>
vars == <<codecMeta, codecUri, codecRes, network, hexPrefixed, owner, tokenUri,
          nonce, txs, feedback, pc, call, loc, result, trace>>

\* no metadata object
Nothing == [t |-> "nothing"]

-----------------------------------------------------------------------------
(* contracts.py: the network table.  Names are text, addresses and URLs are *)
(* opaque strings.                                                          *)

Mainnet == <<109, 97, 105, 110, 110, 101, 116>>
Sepolia == <<115, 101, 112, 111, 108, 105, 97>>

NETWORKS ==
  [n \in {Mainnet, Sepolia} |->
    IF n = Mainnet
      THEN [chain_id |-> 1,
            name |-> "Ethereum Mainnet",
            rpc |-> "https://eth.drpc.org",
            explorer |-> "https://etherscan.io",
            contracts |->
              [identity_registry |-> "0x8004A169FB4a3325136EB29fA0ceB6D2e539a432",
               reputation_registry |-> "0x8004BAa17C55a88189AE136b182e5fdA19dE9b63",
               validation_registry |-> "0x0000000000000000000000000000000000000000"]]
    ELSE [chain_id |-> 11155111,
          name |-> "Sepolia Testnet",
          rpc |-> "https://ethereum-sepolia-rpc.publicnode.com",
          explorer |-> "https://sepolia.etherscan.io",
          contracts |->
            [identity_registry |-> "0x8004A818BFB912233c491871b3d84c89A494BD9e",
             reputation_registry |-> "0x8004B663056A597Dffe9eCcC1965A193B7388713",
             validation_registry |-> "0x0000000000000000000000000000000000000000"]]]

\* ERC8004Client.explorer and ERC8004Client.contracts, fixed by __init__
\* str.lower() on ASCII text
Lower(s) == [i \in 1..Len(s) |-> IF s[i] \in 65..90 THEN s[i] + 32 ELSE s[i]]

\* ", ".join(NETWORKS.keys()): "mainnet, sepolia"
Available == Mainnet \o <<44, 32>> \o Sepolia

\* ValueError(f"Unknown network: {network_name}. Available: {available}")
UnknownNetwork(network_name) ==
  <<"ValueError", "Unknown network: ", network_name, ". Available: ", Available>>

\* the lookup by the name as given, its letters not lowered
get_network_exact(network_name) ==
  IF network_name \in DOMAIN NETWORKS THEN Return(NETWORKS[network_name])
  ELSE Raise(UnknownNetwork(network_name))

get_network(network_name) ==
  IF Lower(network_name) \in DOMAIN NETWORKS
    THEN Return(NETWORKS[Lower(network_name)])
  ELSE Raise(UnknownNetwork(network_name))

get_contracts(network_name) ==
  IF get_network(network_name).kind = "return"
    THEN Return(get_network(network_name).val.contracts)
  ELSE get_network(network_name)

\* ERC8004Client(network): the name the client stores, its contracts and its
\* explorer, or the error of get_network for the lowered name
new_client(name) ==
  IF get_network(Lower(name)).kind = "return"
    THEN Return([network |-> Lower(name),
                 contracts |-> get_contracts(Lower(name)).val,
                 explorer |-> get_network(Lower(name)).val.explorer])
  ELSE get_network(Lower(name))

Explorer == NETWORKS[network].explorer
Contracts == NETWORKS[network].contracts

-----------------------------------------------------------------------------
(* The chain and the transport, as the client sees them *)

MaxAgents == 2      \* agent ids the registry can hold

AgentIds == 1..MaxAgents
NoOwner == "none"
Callers == {"c1", "c2"}

\* one RPC or HTTP call and how it ended: "ok", "revert" or "transport"
\* for an RPC call, "ok", "notok", "badjson" or "error" for an HTTP GET
Rpc(name, arg, out) == [call |-> name, arg |-> arg, out |-> out]
\* the same with what an answered call gave
RpcAns(name, arg, ans) == [call |-> name, arg |-> arg, out |-> "ok", ans |-> ans]

\* a view call answers only if the transport is up and the contract does
\* not revert
ViewOut(up, reverts) ==
  IF ~up THEN "transport" ELSE IF reverts THEN "revert" ELSE "ok"

\* ownerOf reverts for an id that was never minted
OwnerOfReverts(aid) == aid \notin AgentIds \/ owner[aid] = NoOwner

\* to_checksum_address: the checksummed form of a well-formed address,
\* "invalid" for anything else
Checksum(a) ==
  IF a \in {"0xa1", "0xA1"} THEN "0xA1"
  ELSE IF a \in {"0xb2", "0xB2"} THEN "0xB2"
  ELSE IF a = "0x00" THEN "0x00"
  ELSE "invalid"

\* balanceOf: the number of agents an address owns; the zero address reverts
BalanceOf(a) == Cardinality({i \in AgentIds : owner[i] = a})

-----------------------------------------------------------------------------
(* Python's int() on an agent_id argument: [ok, n], ok = FALSE is the      *)
(* ValueError or TypeError int() raises                                    *)

RECURSIVE StripLeft(_)
StripLeft(s) == IF s # << >> /\ IsWs(Head(s)) THEN StripLeft(Tail(s)) ELSE s

RECURSIVE StripRight(_)
StripRight(s) ==
  IF s # << >> /\ IsWs(s[Len(s)]) THEN StripRight(Take(s, Len(s) - 1)) ELSE s

ToInt(v) ==
  IF v.t = "int" THEN [ok |-> TRUE, n |-> v.n]
  ELSE IF v.t = "bool" THEN [ok |-> TRUE, n |-> IF v.b THEN 1 ELSE 0]
  ELSE IF v.t # "str" THEN [ok |-> FALSE, n |-> 0]
  ELSE
    LET body == StripRight(StripLeft(v.s))
        signed == body # << >> /\ body[1] \in {43, 45}
        digits == IF signed THEN Tail(body) ELSE body
        value == DigitsValue(digits, 1, Len(digits) + 1)
    IN  IF digits = << >> \/ \E k \in 1..Len(digits) : ~IsDigit(digits[k])
          THEN [ok |-> FALSE, n |-> 0]
        ELSE [ok |-> TRUE,
              n |-> IF signed /\ body[1] = 45 THEN 0 - value ELSE value]

-----------------------------------------------------------------------------
(* client.py: the read methods.  Each is computed from its arguments and   *)
(* from what the chain, the transport and the HTTP server answer, and      *)
(* gives [res, trace]: the outcome and the calls made, in order.           *)

HttpPrefix == <<104, 116, 116, 112>>                    \* http
IpfsPrefix == <<105, 112, 102, 115, 58, 47, 47>>        \* ipfs://
IpfsGateway ==                                          \* https://ipfs.io/ipfs/
  <<104, 116, 116, 112, 115, 58, 47, 47, 105, 112, 102, 115, 46, 105, 111, 47,
    105, 112, 102, 115, 47>>

\* the method with the conversion of agent_id outside the try block
agent_exists_unguarded(agent_id, up) ==
  LET aid == ToInt(agent_id)
      out == ViewOut(up, OwnerOfReverts(aid.n))
  IN  IF ~aid.ok THEN [res |-> Raise("ValueError"), trace |-> << >>]
      ELSE [res |-> Return(PyBool(out = "ok")),
            trace |-> <<Rpc("ownerOf", << >>, out)>>]

agent_exists(agent_id, up) ==
  LET aid == ToInt(agent_id)
      out == ViewOut(up, OwnerOfReverts(aid.n))
  IN  IF ~aid.ok THEN [res |-> Return(PyBool(FALSE)), trace |-> << >>]
      ELSE [res |-> Return(PyBool(out = "ok")),
            trace |-> <<Rpc("ownerOf", << >>, out)>>]

\* http = [out, body]: how the GET of the metadata URL ends.  The metadata
\* of a token URI, with the fetch made for it
parsed_or_none(parsed) ==
  IF parsed.kind = "return" THEN parsed.val ELSE PyNone

\* the fetch made on the ipfs:// URI itself, without the gateway
metadata_of_direct_ipfs(uri, http) ==
  IF StartsWith(uri, DataUriPrefix)
    THEN [metadata |-> parsed_or_none(parse_data_uri(uri)), trace |-> << >>]
  ELSE IF StartsWith(uri, HttpPrefix) \/ StartsWith(uri, IpfsPrefix)
    THEN [metadata |-> IF http.out = "ok" THEN http.body ELSE PyNone,
          trace |-> <<Rpc("http_get", uri, http.out)>>]
  ELSE [metadata |-> PyNone, trace |-> << >>]

metadata_of(uri, http) ==
  IF StartsWith(uri, DataUriPrefix)
    THEN [metadata |-> parsed_or_none(parse_data_uri(uri)), trace |-> << >>]
  ELSE IF StartsWith(uri, HttpPrefix)
    THEN [metadata |-> IF http.out = "ok" THEN http.body ELSE PyNone,
          trace |-> <<Rpc("http_get", uri, http.out)>>]
  ELSE IF StartsWith(uri, IpfsPrefix)
    THEN [metadata |-> IF http.out = "ok" THEN http.body ELSE PyNone,
          trace |-> <<Rpc("http_get", IpfsGateway \o Drop(uri, 7), http.out)>>]
  ELSE [metadata |-> PyNone, trace |-> << >>]

\* the record with the URI as the contract gave it, empty or not
agent_record_raw_uri(aid, uri, found) ==
  [res |-> Return([agent_id |-> aid,
                   token_uri |-> PyStr(uri),
                   owner |-> owner[aid],
                   metadata |-> found.metadata,
                   explorer_url |->
                     <<Explorer, "/nft/", Contracts.identity_registry,
                       "/", aid>>]),
   trace |-> found.trace]

\* the record get_agent returns, given the metadata found
agent_record(aid, uri, found) ==
  [res |-> Return([agent_id |-> aid,
                   token_uri |-> IF uri # << >> THEN PyStr(uri) ELSE PyNone,
                   owner |-> owner[aid],
                   metadata |-> found.metadata,
                   explorer_url |->
                     <<Explorer, "/nft/", Contracts.identity_registry,
                       "/", aid>>]),
   trace |-> found.trace]

\* get_agent past the owner lookup; out2: how the tokenURI call ends
agent_found(aid, out2, http) ==
  IF out2 = "ok" /\ tokenUri[aid] # << >>
    THEN agent_record(aid, tokenUri[aid], metadata_of(tokenUri[aid], http))
  ELSE agent_record(aid, << >>, [metadata |-> PyNone, trace |-> << >>])

\* what the method gives after the two contract calls
agent_after(out1, out2, record) ==
  [res |-> record.res,
   trace |-> <<Rpc("ownerOf", << >>, out1), Rpc("tokenURI", << >>, out2)>>
               \o record.trace]

get_agent(agent_id, up1, up2, http) ==
  LET aid == ToInt(agent_id)
      out1 == ViewOut(up1, OwnerOfReverts(aid.n))
      out2 == ViewOut(up2, FALSE)
  IN  IF ~aid.ok THEN [res |-> Raise("ValueError"), trace |-> << >>]
      ELSE IF out1 # "ok"
        THEN [res |-> Return(PyNone),
              trace |-> <<Rpc("ownerOf", << >>, out1)>>]
      ELSE agent_after(out1, out2, agent_found(aid.n, out2, http))

get_agent_count(owner_address, up) ==
  LET address == Checksum(owner_address)
      out == ViewOut(up, address = "0x00")
  IN  IF address = "invalid"
        THEN [res |-> Raise("ValueError"), trace |-> << >>]
      ELSE IF out # "ok"
        THEN [res |-> Raise(IF out = "revert" THEN "ContractLogicError"
                            ELSE "ConnectionError"),
              trace |-> <<Rpc("balanceOf", << >>, out)>>]
      ELSE [res |-> Return(PyInt(BalanceOf(address))),
            trace |-> <<Rpc("balanceOf", << >>, out)>>]

RECURSIVE GCD(_, _)
GCD(a, b) == IF b = 0 THEN a ELSE GCD(b, a % b)

\* the quotient num / den of a true division, as a fraction in lowest terms
PyQuotient(num, den) ==
  LET g == GCD(IF num < 0 THEN 0 - num ELSE num, den)
  IN  [t |-> "float", num |-> num \div g, den |-> den \div g]

\* the score left as the contract's fixed-point integer
average_score_unscaled(summary_value, decimals) ==
  PyQuotient(summary_value, 1)

\* float(summary_value) / (10 ** int(decimals))
average_score(summary_value, decimals) ==
  PyQuotient(summary_value, Pow(10, decimals))

\* summary = <<count, summary_value, decimals>>: what getSummary answers;
\* reverts: whether the contract reverts the call
get_reputation(agent_id, client_addresses, tag1, tag2, up, reverts, summary) ==
  LET aid == ToInt(agent_id)
      addresses == IF client_addresses.t = "null" THEN << >>
                   ELSE client_addresses.items
      filters == [client_addresses |-> addresses, tag1 |-> tag1, tag2 |-> tag2]
      checksum_addresses ==
        [k \in 1..Len(addresses) |-> Checksum(addresses[k])]
      badAddress == \E k \in 1..Len(addresses) : checksum_addresses[k] = "invalid"
      out == ViewOut(up, reverts)
      failed(e, tr) ==
        [res |-> Return([agent_id |-> aid.n,
                         feedback_count |-> 0,
                         average_score |-> PyNone,
                         decimals |-> 0,
                         raw_value |-> 0,
                         error |-> e,
                         filters |-> filters]),
         trace |-> tr]
  IN  IF ~aid.ok THEN [res |-> Raise("ValueError"), trace |-> << >>]
      ELSE IF addresses = << >>
        THEN [res |-> Return([agent_id |-> aid.n,
                              feedback_count |-> 0,
                              average_score |-> PyNone,
                              decimals |-> 0,
                              raw_value |-> 0,
                              note |-> "Provide client_addresses to query reputation from specific reviewers",
                              filters |-> filters]),
              trace |-> << >>]
      ELSE IF badAddress THEN failed("invalid address", << >>)
      ELSE IF out # "ok"
        THEN failed(out, <<Rpc("getSummary", checksum_addresses, out)>>)
      ELSE [res |-> Return([agent_id |-> aid.n,
                            feedback_count |-> summary[1],
                            average_score |->
                              average_score(summary[2], summary[3]),
                            decimals |-> summary[3],
                            raw_value |-> summary[2],
                            filters |-> filters]),
            trace |-> <<RpcAns("getSummary", checksum_addresses, summary)>>]

get_network_info ==
  [network |-> network, contracts |-> Contracts, explorer |-> Explorer]

-----------------------------------------------------------------------------
(* Starting states *)

Addresses == {"0xA1", "0xB2"}

NoCall == [op |-> "none"]
NoLoc == [address |-> "-", func |-> [name |-> "-"], gas |-> 0, nonce |-> 0,
          tx |-> 0, logs |-> << >>]

CodecIdle ==
  /\ codecMeta = Nothing
  /\ codecUri = << >>
  /\ codecRes = NoResult

CallersIdle ==
  /\ pc = [c \in Callers |-> "idle"]
  /\ call = [c \in Callers |-> NoCall]
  /\ loc = [c \in Callers |-> NoLoc]
  /\ result = [c \in Callers |-> NoResult]
  /\ trace = [c \in Callers |-> << >>]

NoTransactions ==
  /\ nonce = [a \in Addresses |-> 0]
  /\ txs = << >>
  /\ feedback = {}

\* a caller's operation ends: what it was, what it gave, the calls it made
Finish(c, op, r) ==
  /\ call' = [call EXCEPT ![c] = op]
  /\ result' = [result EXCEPT ![c] = r.res]
  /\ trace' = [trace EXCEPT ![c] = r.trace]

\* the caller is done with the outcome of its last operation
Forget(c) ==
  /\ pc[c] = "idle"
  /\ result[c] # NoResult
  /\ call' = [call EXCEPT ![c] = NoCall]
  /\ result' = [result EXCEPT ![c] = NoResult]
  /\ trace' = [trace EXCEPT ![c] = << >>]
  /\ loc' = [loc EXCEPT ![c] = NoLoc]
  /\ UNCHANGED <<codecVars, clientVars, chainVars, pc>>

-----------------------------------------------------------------------------
(* The read methods against a chain that stands still: the chain state,    *)
(* the arguments and the answers of the transport are drawn from bounded   *)
(* sets                                                                    *)

\* 1, 2, "1", "abc"
IdArgs == {PyInt(1), PyInt(2), PyStr(<<49>>), PyStr(<<97, 98, 99>>)}

\* a data URI of {"k": 7}, a data URI whose payload is not JSON, links
ReadUris ==
  { << >>,
    create_data_uri(PyDict(<< <<(<<107>>), PyInt(7)>> >>)),
    DataUriPrefix \o B64Encode(<<110, 111, 116>>),
    <<104, 116, 116, 112, 58, 47, 47, 120>>,            \* http://x
    <<105, 112, 102, 115, 58, 47, 47, 81, 109>>,        \* ipfs://Qm
    <<102, 116, 112, 58, 47, 47, 120>> }                \* ftp://x

HttpAnswers ==
  { [out |-> "error", body |-> PyNone],
    [out |-> "notok", body |-> PyNone],
    [out |-> "badjson", body |-> PyNone],
    [out |-> "ok", body |-> PyDict(<< <<(<<110>>), PyStr(<<120>>)>> >>)] }

AddressArgs == {"0xa1", "0xB2", "0x00", "bogus"}
ReviewerArgs ==
  { PyNone, PyList(<< >>), PyList(<<"0xa1">>), PyList(<<"0xA1", "0xb2">>),
    PyList(<<"bogus">>), PyList(<<"0xa1", "bogus">>) }
Tags == {"", "quality"}
Summaries == { <<10, 450, 2>>, <<0, 0, 0>>, <<3, -7, 1>>, <<1, 5, 0>> }

InitRead ==
  /\ CodecIdle
  /\ CallersIdle
  /\ NoTransactions
  /\ network \in DOMAIN NETWORKS
  /\ hexPrefixed = TRUE
  /\ owner \in [AgentIds -> {"0xA1", NoOwner}]
  /\ \E u \in ReadUris :
       tokenUri = [i \in AgentIds |->
                     IF i = 1 /\ owner[i] # NoOwner THEN u ELSE << >>]

AgentExists(c) ==
  /\ pc[c] = "idle"
  /\ result[c] = NoResult
  /\ \E agent_id \in IdArgs, up \in BOOLEAN :
       Finish(c, [op |-> "agent_exists", agent_id |-> agent_id],
              agent_exists(agent_id, up))
  /\ UNCHANGED <<codecVars, clientVars, chainVars, pc, loc>>

GetAgent(c) ==
  /\ pc[c] = "idle"
  /\ result[c] = NoResult
  /\ \E agent_id \in IdArgs, up1 \in BOOLEAN, up2 \in BOOLEAN,
        http \in HttpAnswers :
       Finish(c, [op |-> "get_agent", agent_id |-> agent_id],
              get_agent(agent_id, up1, up2, http))
  /\ UNCHANGED <<codecVars, clientVars, chainVars, pc, loc>>

GetAgentCount(c) ==
  /\ pc[c] = "idle"
  /\ result[c] = NoResult
  /\ \E owner_address \in AddressArgs, up \in BOOLEAN :
       Finish(c, [op |-> "get_agent_count", owner_address |-> owner_address],
              get_agent_count(owner_address, up))
  /\ UNCHANGED <<codecVars, clientVars, chainVars, pc, loc>>

GetReputation(c) ==
  /\ pc[c] = "idle"
  /\ result[c] = NoResult
  /\ \E agent_id \in IdArgs, client_addresses \in ReviewerArgs,
        tag1 \in Tags, tag2 \in Tags, up \in BOOLEAN, reverts \in BOOLEAN,
        summary \in Summaries :
       Finish(c, [op |-> "get_reputation", agent_id |-> agent_id,
                  client_addresses |-> client_addresses,
                  tag1 |-> tag1, tag2 |-> tag2],
              get_reputation(agent_id, client_addresses, tag1, tag2,
                             up, reverts, summary))
  /\ UNCHANGED <<codecVars, clientVars, chainVars, pc, loc>>

NextRead ==
  \/ AgentExists("c1")
  \/ GetAgent("c1")
  \/ GetAgentCount("c1")
  \/ GetReputation("c1")
  \/ Forget("c1")

SpecRead == InitRead /\ [][NextRead]_vars

-----------------------------------------------------------------------------
(* The codec on its own: inputs drawn from bounded sets *)

\* a, ", \, newline, e-acute, robot face (outside the BMP)
StrChars == {97, 34, 92, 10, 233, 129302}
Strs == SeqsUpTo(StrChars, MaxStrLen)

Leaves ==
  {PyNone, PyBool(TRUE), PyBool(FALSE), PyInt(-12), PyInt(0), PyInt(7)}
    \cup {PyStr(s) : s \in Strs}
SmallLeaves == {PyNone, PyInt(7), PyStr(<<233>>)}
\* "", "k", e-acute followed by a quote
KeySet == {<< >>, <<107>>, <<233, 34>>}

Inner ==
  {PyList(q) : q \in SeqsUpTo(SmallLeaves, MaxItems)}
    \cup {PyDict(<< >>)}
    \cup {PyDict(<< <<k, v>> >>) : k \in KeySet, v \in SmallLeaves}
Nested ==
  {PyList(<<i>>) : i \in Inner} \cup {PyDict(<< <<(<<107>>), i>> >>) : i \in Inner}
Vals == Leaves \cup Inner \cup Nested

MetaValues ==
  {PyDict(<< >>)}
    \cup {PyDict(<< <<k, v>> >>) : k \in KeySet, v \in Vals}
    \cup {PyDict(<< <<k[1], v>>, <<k[2], w>> >>) :
            k \in {q \in KeySet \X KeySet : q[1] # q[2]},
            v \in SmallLeaves \cup {PyList(<<PyDict(<< >>)>>)},
            w \in SmallLeaves}

\* { } [ ] " : , space 1 a
TextChars == {123, 125, 91, 93, 34, 58, 44, 32, 49, 97}
Texts ==
  SeqsUpTo(TextChars, MaxTextLen)
    \cup { <<110, 111, 116, 32, 106, 115, 111, 110>>,       \* not json
           <<34, 233, 34>>,                                 \* "e-acute"
           <<123, 34, 97, 34, 58, 32, 49, 125>>,            \* {"a": 1}
           <<48, 49>>, <<110, 117, 108>>,                   \* 01, nul
           <<110, 117, 108, 108>>, <<45, 49>>,              \* null, -1
           <<49, 46, 53>>, <<49, 101, 50>>, <<49, 46>>,     \* 1.5, 1e2, 1.
           <<45, 48, 46, 53, 69, 43, 49>>, <<46, 53>>,      \* -0.5E+1, .5
           NaNText, <<91>> \o NaNText \o <<93>>,            \* NaN, [NaN]
           InfinityText, <<45>> \o InfinityText }

\* "e30=", the payload of {}
EmptyObjectPayload == <<101, 51, 48, 61>>

NonPrefixed ==
  {Take(DataUriPrefix, k) : k \in 0..(Len(DataUriPrefix) - 1)}
    \cup {[DataUriPrefix EXCEPT ![k] = 88] \o EmptyObjectPayload :
            k \in 1..Len(DataUriPrefix)}
    \cup { <<32>> \o DataUriPrefix \o EmptyObjectPayload,
           EmptyObjectPayload,
           <<105, 110, 118, 97, 108, 105, 100>>,            \* invalid
           <<100, 97, 116, 97, 58, 116, 101, 120, 116, 47, 112, 108, 97,
             105, 110, 59, 98, 97, 115, 101, 54, 52, 44, 97, 98, 99>> }
                                              \* data:text/plain;base64,abc

Prefixed ==
  {DataUriPrefix \o B64Encode(Utf8Encode(t)) : t \in Texts}
    \cup {DataUriPrefix \o x :
            x \in {<<101>>, <<101, 51, 48>>, <<233>>, <<119, 119, 61, 61>>}}
                                              \* e, e30, e-acute, ww==

UriInputs == NonPrefixed \cup Prefixed

CodecEncode ==
  /\ CodecIdle
  /\ \E m \in MetaValues :
       /\ codecMeta' = m
       /\ codecUri' = create_data_uri(m)
  /\ codecRes' = NoResult
  /\ UNCHANGED <<clientVars, chainVars, procVars>>

CodecInput ==
  /\ CodecIdle
  /\ \E u \in UriInputs : codecUri' = u
  /\ codecMeta' = Nothing
  /\ codecRes' = NoResult
  /\ UNCHANGED <<clientVars, chainVars, procVars>>

CodecDecode ==
  /\ codecRes = NoResult
  /\ codecRes' = parse_data_uri(codecUri)
  /\ UNCHANGED <<codecMeta, codecUri, clientVars, chainVars, procVars>>

InitCodec ==
  /\ CodecIdle
  /\ CallersIdle
  /\ NoTransactions
  /\ network = Mainnet
  /\ hexPrefixed = TRUE
  /\ owner = [i \in AgentIds |-> NoOwner]
  /\ tokenUri = [i \in AgentIds |-> << >>]

CodecForget ==
  /\ codecRes # NoResult
  /\ codecMeta' = Nothing
  /\ codecUri' = << >>
  /\ codecRes' = NoResult
  /\ UNCHANGED <<clientVars, chainVars, procVars>>

NextCodec == CodecEncode \/ CodecInput \/ CodecDecode \/ CodecForget

SpecCodec == InitCodec /\ [][NextCodec]_vars

-----------------------------------------------------------------------------
(* Hexadecimal text, as the write methods read and compare it *)

\* bytes.hex(): two lowercase digits a byte
BytesHex(b) ==
  [k \in 1..(2 * Len(b)) |->
     HexDigit(IF k % 2 = 1 THEN b[(k + 1) \div 2] \div 16
              ELSE b[k \div 2] % 16)]

\* HexBytes.hex(): with the "0x" marker or without it, as the installed
\* hexbytes has it
HexBytesHex(b) == IF hexPrefixed THEN <<48, 120>> \o BytesHex(b) ELSE BytesHex(b)

RECURSIVE HexValue(_)
HexValue(s) ==
  IF s = << >> THEN 0 ELSE HexValue(Take(s, Len(s) - 1)) * 16 + HexVal(s[Len(s)])

\* int(text, 16): hexadecimal digits after an optional "0x" or "0X"
IntHex(text) ==
  LET digits == IF Len(text) >= 2 /\ text[1] = 48 /\ text[2] \in {120, 88}
                  THEN Drop(text, 2) ELSE text
  IN  IF digits = << >> \/ \E k \in 1..Len(digits) : HexVal(digits[k]) < 0
        THEN [ok |-> FALSE, n |-> 0]
      ELSE [ok |-> TRUE, n |-> HexValue(digits)]

\* str.replace("0x", ""): every occurrence, left to right
RECURSIVE Without0x(_)
Without0x(s) ==
  IF Len(s) < 2 THEN s
  ELSE IF s[1] = 48 /\ s[2] = 120 THEN Without0x(Drop(s, 2))
  ELSE <<s[1]>> \o Without0x(Tail(s))

\* bytes.fromhex on text without spaces: pairs of hexadecimal digits
FromHex(text) ==
  IF Len(text) % 2 = 1 \/ \E k \in 1..Len(text) : HexVal(text[k]) < 0
    THEN [ok |-> FALSE, bytes |-> << >>]
  ELSE [ok |-> TRUE,
        bytes |-> [k \in 1..(Len(text) \div 2) |->
                     HexVal(text[2 * k - 1]) * 16 + HexVal(text[2 * k])]]

\* a 32-byte word holding a small number, big-endian
Word(n) == [k \in 1..32 |-> IF k = 32 THEN n % 256
                            ELSE IF k = 31 THEN (n \div 256) % 256 ELSE 0]

-----------------------------------------------------------------------------
(* client.py: the pieces of the write methods *)

\* the private keys of the model's two accounts, with and without the marker
KeyA == <<97, 49>>
KeyB == <<98, 50>>

\* Account.from_key: the account of a well-formed key, an error for the rest
from_key(key) ==
  IF key = <<48, 120>> \o KeyA THEN [ok |-> TRUE, address |-> "0xA1"]
  ELSE IF key = <<48, 120>> \o KeyB THEN [ok |-> TRUE, address |-> "0xB2"]
  ELSE [ok |-> FALSE, address |-> "-"]

\* the account of any key at all, a malformed one taken for the first
_get_account_unchecked(private_key) ==
  IF from_key(IF StartsWith(private_key, <<48, 120>>) THEN private_key
              ELSE <<48, 120>> \o private_key).ok
    THEN from_key(IF StartsWith(private_key, <<48, 120>>) THEN private_key
                  ELSE <<48, 120>> \o private_key)
  ELSE [ok |-> TRUE, address |-> "0xA1"]

_get_account(private_key) ==
  from_key(IF StartsWith(private_key, <<48, 120>>) THEN private_key
           ELSE <<48, 120>> \o private_key)

\* the topic register looks for, as client.py writes it
transfer_topic ==
  <<48, 120, 100, 100, 102, 50, 53, 50, 97, 100, 49, 98, 101, 50, 99, 56,
    57, 98, 54, 57, 99, 50, 98, 48, 54, 56, 102, 99, 51, 55, 56, 100, 97,
    97, 57, 53, 50, 98, 97, 55, 102, 49, 54, 51, 99, 52, 97, 49, 49, 54, 50,
    56, 102, 53, 53, 97, 52, 100, 102, 53, 50, 51, 98, 51, 101, 102>>

\* the hash of Transfer(address,address,uint256), as the chain puts it first
\* in the topics of every ERC-721 transfer
TransferSignature == FromHex(Drop(transfer_topic, 2)).bytes

\* the agent id register reads from the logs of its receipt: the fourth
\* topic of the last Transfer log that has four topics, None without one
agent_id_of(logs) ==
  LET hits == {k \in 1..Len(logs) :
                 /\ logs[k].topics # << >>
                 /\ HexBytesHex(logs[k].topics[1]) = transfer_topic
                 /\ Len(logs[k].topics) >= 4}
      last == CHOOSE k \in hits : \A j \in hits : j <= k
  IN  IF hits = {} THEN PyNone
      ELSE PyInt(IntHex(HexBytesHex(logs[last].topics[4])).n)

\* Python's truth value of an argument
Truthy(v) ==
  CASE v.t = "null" -> FALSE
    [] v.t = "bool" -> v.b
    [] v.t = "int" -> v.n # 0
    [] v.t = "str" -> v.s # << >>
    [] v.t \in {"list", "dict"} -> v.items # << >>

RegistrationType ==
  <<104, 116, 116, 112, 115, 58, 47, 47, 101, 105, 112, 115, 46, 101, 116,
    104, 101, 114, 101, 117, 109, 46, 111, 114, 103, 47, 69, 73, 80, 83, 47,
    101, 105, 112, 45, 56, 48, 48, 52, 35, 114, 101, 103, 105, 115, 116,
    114, 97, 116, 105, 111, 110, 45, 118, 49>>

create_registration_metadata(name, description, image, services, supported_trust) ==
  PyDict(<< <<(<<116, 121, 112, 101>>), PyStr(RegistrationType)>>,
            <<(<<110, 97, 109, 101>>), name>>,
            <<(<<100, 101, 115, 99, 114, 105, 112, 116, 105, 111, 110>>),
              description>>,
            <<(<<105, 109, 97, 103, 101>>), image>>,
            <<(<<115, 101, 114, 118, 105, 99, 101, 115>>),
              IF Truthy(services) THEN services ELSE PyList(<< >>)>>,
            <<(<<115, 117, 112, 112, 111, 114, 116, 101, 100, 84, 114, 117,
                 115, 116>>),
              IF Truthy(supported_trust) THEN supported_trust
              ELSE PyList(<<PyStr(<<114, 101, 112, 117, 116, 97, 116, 105,
                                    111, 110>>)>>)>> >>)

\* A natural number of any size is the sequence of its binary digits, the
\* least significant first; a float is m * 2^e with m of at most 53 digits.
Significand == 53

\* the binary digits of a number written in hexadecimal digits
BitsOfHex(h) ==
  [i \in 1..(4 * Len(h)) |->
     (h[Len(h) - ((i - 1) \div 4)] \div Pow(2, (i - 1) % 4)) % 2]

\* without the zeros at the top
BitsTrim(a) ==
  LET ones == {i \in 1..Len(a) : a[i] = 1}
  IN  IF ones = {} THEN << >>
      ELSE SubSeq(a, 1, CHOOSE i \in ones : \A j \in ones : j <= i)

RECURSIVE BitsAdd(_, _, _)
\* a + b + carry
BitsAdd(a, b, carry) ==
  IF a = << >> /\ b = << >> THEN (IF carry = 1 THEN <<1>> ELSE << >>)
  ELSE LET x == IF a = << >> THEN 0 ELSE Head(a)
           y == IF b = << >> THEN 0 ELSE Head(b)
       IN  <<(x + y + carry) % 2>>
             \o BitsAdd(IF a = << >> THEN a ELSE Tail(a),
                        IF b = << >> THEN b ELSE Tail(b),
                        (x + y + carry) \div 2)

RECURSIVE BitsTimes(_, _)
\* a * n, the exact product
BitsTimes(a, n) ==
  IF n = 0 THEN << >>
  ELSE BitsAdd(IF n % 2 = 1 THEN a ELSE << >>,
               <<0>> \o BitsTimes(a, n \div 2), 0)

RECURSIVE BitsValue(_)
BitsValue(a) == IF a = << >> THEN 0 ELSE Head(a) + 2 * BitsValue(Tail(a))

\* a / 2^drop rounded to the nearest integer, a tie going to the even one
BitsShiftEven(a, drop) ==
  LET q == IF Len(a) > drop THEN SubSeq(a, drop + 1, Len(a)) ELSE << >>
      half == drop >= 1 /\ drop <= Len(a) /\ a[drop] = 1
      sticky == \E i \in 1..(drop - 1) : i <= Len(a) /\ a[i] = 1
      odd == q # << >> /\ q[1] = 1
  IN  IF half /\ (sticky \/ odd) THEN BitsAdd(q, << >>, 1) ELSE q

\* the float that float.hex() prints as 0x<digits[1]>.<the rest>p<p>
FromFloatHex(digits, p) ==
  [m |-> BitsTrim(BitsOfHex(digits)), e |-> p - 4 * (Len(digits) - 1)]

\* x * n for a float x and an integer n that is a float exactly: the exact
\* product rounded to the nearest float
FloatTimes(x, n) ==
  LET exact == BitsTrim(BitsTimes(x.m, n))
      drop == IF Len(exact) > Significand THEN Len(exact) - Significand ELSE 0
  IN  [m |-> BitsShiftEven(exact, drop), e |-> x.e + drop]

\* int(round(x)) of a float x
FloatRound(x) ==
  IF x.e >= 0 THEN BitsValue([i \in 1..x.e |-> 0] \o x.m)
  ELSE BitsValue(BitsShiftEven(x.m, 0 - x.e))

\* int(value * (10 ** decimals)): the fraction is cut off, not rounded
int_value_truncated(value, decimals) ==
  LET x == FloatTimes(value, Pow(10, decimals))
  IN  IF x.e >= 0 THEN FloatRound(x)
      ELSE BitsValue(IF Len(x.m) > 0 - x.e
                       THEN SubSeq(x.m, 1 - x.e, Len(x.m)) ELSE << >>)

\* int(round(value * (10 ** decimals)))
int_value(value, decimals) == FloatRound(FloatTimes(value, Pow(10, decimals)))

\* the feedback hash with 32 bytes of 1 where none was given
fb_hash_ones(feedback_hash) ==
  IF feedback_hash.t = "null" THEN [ok |-> TRUE, bytes |-> [k \in 1..32 |-> 1]]
  ELSE FromHex(Without0x(feedback_hash.s))

\* the bytes give_feedback sends as the feedback hash
fb_hash(feedback_hash) ==
  IF feedback_hash.t = "null" THEN [ok |-> TRUE, bytes |-> [k \in 1..32 |-> 0]]
  ELSE FromHex(Without0x(feedback_hash.s))

-----------------------------------------------------------------------------
(* The network lookup, the creation of a client and the metadata builder:  *)
(* arguments drawn from bounded sets                                       *)

\* the network of a caller that holds no client yet
NoNetwork == << >>

\* mainnet, MAINNET, Mainnet, mAiNnEt, sepolia, SEPOLIA, Sepolia, the empty
\* name, goerli, "mainnet ", main, sepolia1, MAINNETS, x
NetworkNames ==
  { Mainnet, <<77, 65, 73, 78, 78, 69, 84>>,
    <<77, 97, 105, 110, 110, 101, 116>>, <<109, 65, 105, 78, 110, 69, 116>>,
    Sepolia, <<83, 69, 80, 79, 76, 73, 65>>,
    <<83, 101, 112, 111, 108, 105, 97>>, << >>,
    <<103, 111, 101, 114, 108, 105>>, Mainnet \o <<32>>,
    <<109, 97, 105, 110>>, Sepolia \o <<49>>,
    <<77, 65, 73, 78, 78, 69, 84, 83>>, <<120>> }

InitNetwork ==
  /\ CodecIdle
  /\ CallersIdle
  /\ NoTransactions
  /\ network = NoNetwork
  /\ hexPrefixed = TRUE
  /\ owner = [i \in AgentIds |-> NoOwner]
  /\ tokenUri = [i \in AgentIds |-> << >>]

Lookup(c, op, r) ==
  /\ pc[c] = "idle"
  /\ result[c] = NoResult
  /\ call' = [call EXCEPT ![c] = op]
  /\ result' = [result EXCEPT ![c] = r]
  /\ UNCHANGED <<codecVars, chainVars, hexPrefixed, pc, loc, trace>>

GetNetwork(c) ==
  \E name \in NetworkNames :
    /\ Lookup(c, [op |-> "get_network", name |-> name], get_network(name))
    /\ UNCHANGED network

GetContracts(c) ==
  \E name \in NetworkNames :
    /\ Lookup(c, [op |-> "get_contracts", name |-> name], get_contracts(name))
    /\ UNCHANGED network

\* ERC8004Client(name): the caller holds the new client, or the client it
\* held when the constructor raises
NewClient(c) ==
  \E name \in NetworkNames :
    /\ Lookup(c, [op |-> "new_client", name |-> name], new_client(name))
    /\ network' = IF new_client(name).kind = "return"
                    THEN new_client(name).val.network
                  ELSE network

\* "", "d"
TextArgs == { PyStr(<< >>), PyStr(<<100>>) }
\* not given, [], [{"name": "n", "endpoint": "e"}]
ServiceArgs ==
  { PyNone, PyList(<< >>),
    PyList(<<PyDict(<< <<(<<110, 97, 109, 101>>), PyStr(<<110>>)>>,
                       <<(<<101, 110, 100, 112, 111, 105, 110, 116>>),
                         PyStr(<<101>>)>> >>)>>) }
\* not given, [], ["x"], ["x", "y"]
TrustArgs ==
  { PyNone, PyList(<< >>), PyList(<<PyStr(<<120>>)>>),
    PyList(<<PyStr(<<120>>), PyStr(<<121>>)>>) }

\* create_registration_metadata called with a name and what else is given
BuildMetadata(c) ==
  \E name \in {PyStr(<<65>>), PyStr(<< >>)}, description \in TextArgs,
     image \in TextArgs, services \in ServiceArgs,
     supported_trust \in TrustArgs :
    /\ Lookup(c, [op |-> "create_registration_metadata", name |-> name,
                  description |-> description, image |-> image,
                  services |-> services, supported_trust |-> supported_trust],
              Return(create_registration_metadata(name, description, image,
                                                  services, supported_trust)))
    /\ UNCHANGED network

NextNetwork ==
  \/ GetNetwork("c1")
  \/ GetContracts("c1")
  \/ NewClient("c1")
  \/ BuildMetadata("c1")
  \/ Forget("c1")

SpecNetwork == InitNetwork /\ [][NextNetwork]_vars

-----------------------------------------------------------------------------
(* The write methods, a step at a time, against a chain that mines the     *)
(* transactions it was sent                                                *)

MaxTx == 2

\* "0xa1", "b2", "zz"
KeyArgs == { <<48, 120>> \o KeyA, KeyB, <<122, 122>> }
\* nothing, http://x, {}, {"k": 7}
RegisterArgs ==
  { PyNone, PyStr(<<104, 116, 116, 112, 58, 47, 47, 120>>), PyDict(<< >>),
    PyDict(<< <<(<<107>>), PyInt(7)>> >>) }
\* "A" and the empty name
NameArgs == { PyStr(<<65>>), PyStr(<< >>) }
\* http://y, {"k": 7}
UriArgs ==
  { PyStr(<<104, 116, 116, 112, 58, 47, 47, 121>>),
    PyDict(<< <<(<<107>>), PyInt(7)>> >>) }
\* 1, "2", "abc"
WriteIds == {PyInt(1), PyStr(<<50>>), PyStr(<<97, 98, 99>>)}
\* a score as the caller writes it, digits / 10^places, with the float that
\* text is: the digits and exponent of float.hex()
Score(digits, places, hexdigits, p) ==
  [digits |-> digits, places |-> places, float |-> FromFloatHex(hexdigits, p)]
\* 4.5 with two decimals, 0.5 with none, 4.35 with two, 0.15 with one,
\* 2.675 with two
ScoreArgs ==
  { <<Score(45, 1, <<1, 2, 0, 0, 0, 0, 0, 0, 0, 0, 0, 0, 0, 0>>, 2), 2>>,
    <<Score(5, 1, <<1, 0, 0, 0, 0, 0, 0, 0, 0, 0, 0, 0, 0, 0>>, -1), 0>>,
    <<Score(435, 2, <<1, 1, 6, 6, 6, 6, 6, 6, 6, 6, 6, 6, 6, 6>>, 2), 2>>,
    <<Score(15, 2, <<1, 3, 3, 3, 3, 3, 3, 3, 3, 3, 3, 3, 3, 3>>, -3), 1>>,
    <<Score(2675, 3, <<1, 5, 6, 6, 6, 6, 6, 6, 6, 6, 6, 6, 6, 6>>, 1), 2>> }
\* none, a 32-byte hash with 0x and one without, "zz", "0xab"
HashArgs ==
  { PyNone, PyStr(<<48, 120>> \o [k \in 1..64 |-> IF k % 2 = 1 THEN 97 ELSE 98]),
    PyStr([k \in 1..64 |-> IF k % 2 = 1 THEN 99 ELSE 100]),
    PyStr(<<122, 122>>), PyStr(<<48, 120, 97, 98>>) }

Minted == {i \in AgentIds : owner[i] # NoOwner}
PendingRegisters ==
  {i \in 1..Len(txs) : txs[i].status = "pending" /\ txs[i].func.name = "register"}

InitWrite ==
  /\ CodecIdle
  /\ CallersIdle
  /\ NoTransactions
  /\ network = Sepolia
  /\ hexPrefixed \in BOOLEAN
  /\ owner = [i \in AgentIds |-> IF i = 1 THEN "0xB2" ELSE NoOwner]
  /\ tokenUri = [i \in AgentIds |-> << >>]

\* a step a write method takes on its own, without the node: deriving the
\* signer from the key ("derive_signer"), building the contract call
\* ("build_call")
Local(name, out) == Rpc(name, << >>, out)
DeriveSigner(out) == Local("derive_signer", out)
BuildCall(out) == Local("build_call", out)

\* a write method fails before it reaches the chain, after the steps
FailOp(c, op, e, steps) ==
  /\ call' = [call EXCEPT ![c] = op]
  /\ result' = [result EXCEPT ![c] = Raise(e)]
  /\ trace' = [trace EXCEPT ![c] = steps]
  /\ UNCHANGED <<pc, loc>>

\* a write method, after the steps, is in _build_and_send_tx with the signer
\* and the call func to send
StartOp(c, op, func, gas_limit, address, steps) ==
  /\ call' = [call EXCEPT ![c] = op]
  /\ loc' = [loc EXCEPT ![c] = [address |-> address, func |-> func,
                                gas |-> gas_limit, nonce |-> 0, tx |-> 0,
                                logs |-> << >>]]
  /\ pc' = [pc EXCEPT ![c] = "nonce"]
  /\ trace' = [trace EXCEPT ![c] = steps]
  /\ UNCHANGED result

\* a write method that starts only while no other caller is in one
CanStartLocked(c) ==
  /\ pc[c] = "idle"
  /\ result[c] = NoResult
  /\ Len(txs) < MaxTx
  /\ \A d \in Callers \ {c} : pc[d] = "idle"

CanStart(c) ==
  /\ pc[c] = "idle"
  /\ result[c] = NoResult
  /\ Len(txs) < MaxTx

\* register up to the call of _build_and_send_tx
register(c, op, private_key, agent_uri_or_metadata) ==
  LET account == _get_account(private_key)
      agent_uri ==
        IF ~Truthy(agent_uri_or_metadata) THEN << >>
        ELSE IF agent_uri_or_metadata.t = "dict"
          THEN create_data_uri(agent_uri_or_metadata)
        ELSE agent_uri_or_metadata.s
      func == [name |-> "register",
               args |-> IF agent_uri # << >> THEN <<agent_uri>> ELSE << >>]
  IN  IF ~account.ok
        THEN FailOp(c, op, "ValueError", <<DeriveSigner("raise")>>)
      ELSE StartOp(c, op, func, 500000, account.address,
                   <<DeriveSigner("ok"), BuildCall("ok"), DeriveSigner("ok")>>)

Register(c) ==
  /\ CanStart(c)
  /\ Cardinality(Minted) + Cardinality(PendingRegisters) < MaxAgents
  /\ \E private_key \in KeyArgs, agent_uri_or_metadata \in RegisterArgs :
       register(c, [op |-> "register", private_key |-> private_key,
                    agent_uri_or_metadata |-> agent_uri_or_metadata],
                private_key, agent_uri_or_metadata)
  /\ UNCHANGED <<codecVars, clientVars, chainVars>>

RegisterAgent(c) ==
  /\ CanStart(c)
  /\ Cardinality(Minted) + Cardinality(PendingRegisters) < MaxAgents
  /\ \E private_key \in KeyArgs, name \in NameArgs :
       register(c, [op |-> "register_agent", private_key |-> private_key,
                    name |-> name],
                private_key,
                create_registration_metadata(name, PyStr(<< >>), PyStr(<< >>),
                                             PyNone, PyNone))
  /\ UNCHANGED <<codecVars, clientVars, chainVars>>

\* set_agent_uri up to the call of _build_and_send_tx
set_agent_uri(c, private_key, agent_id, new_uri_or_metadata) ==
  LET op == [op |-> "set_agent_uri", private_key |-> private_key,
             agent_id |-> agent_id,
             new_uri_or_metadata |-> new_uri_or_metadata]
      aid == ToInt(agent_id)
      new_uri == IF new_uri_or_metadata.t = "dict"
                   THEN create_data_uri(new_uri_or_metadata)
                 ELSE new_uri_or_metadata.s
      account == _get_account(private_key)
  IN  IF ~aid.ok THEN FailOp(c, op, "ValueError", << >>)
      ELSE IF ~account.ok
        THEN FailOp(c, op, "ValueError",
                    <<BuildCall("ok"), DeriveSigner("raise")>>)
      ELSE StartOp(c, op, [name |-> "setAgentURI",
                           args |-> <<aid.n, new_uri>>],
                   300000, account.address,
                   <<BuildCall("ok"), DeriveSigner("ok")>>)

SetAgentUri(c) ==
  /\ CanStart(c)
  /\ \E private_key \in KeyArgs, agent_id \in WriteIds,
        new_uri_or_metadata \in UriArgs :
       set_agent_uri(c, private_key, agent_id, new_uri_or_metadata)
  /\ UNCHANGED <<codecVars, clientVars, chainVars>>

GiveFeedback(c) ==
  /\ CanStart(c)
  /\ \E private_key \in KeyArgs, agent_id \in WriteIds, score \in ScoreArgs,
        feedback_hash \in HashArgs :
       LET op == [op |-> "give_feedback", private_key |-> private_key,
                  agent_id |-> agent_id, value |-> score[1],
                  decimals |-> score[2], feedback_hash |-> feedback_hash]
           aid == ToInt(agent_id)
           hash == fb_hash(feedback_hash)
           account == _get_account(private_key)
       IN  IF ~aid.ok \/ ~hash.ok THEN FailOp(c, op, "ValueError", << >>)
           ELSE IF Len(hash.bytes) # 32
             THEN FailOp(c, op, "Web3ValidationError", <<BuildCall("raise")>>)
           ELSE IF ~account.ok
             THEN FailOp(c, op, "ValueError",
                         <<BuildCall("ok"), DeriveSigner("raise")>>)
           ELSE StartOp(c, op,
                        [name |-> "giveFeedback",
                         args |-> <<aid.n, int_value(score[1].float, score[2]),
                                    score[2], "", "", "", "", hash.bytes>>],
                        300000, account.address,
                        <<BuildCall("ok"), DeriveSigner("ok")>>)
  /\ UNCHANGED <<codecVars, clientVars, chainVars>>

\* the operation of caller c ends
EndOp(c, r, calls) ==
  /\ result' = [result EXCEPT ![c] = r]
  /\ trace' = [trace EXCEPT ![c] = trace[c] \o calls]
  /\ pc' = [pc EXCEPT ![c] = "idle"]

\* the operation of caller c goes on to its next step
StepOp(c, next, calls) ==
  /\ trace' = [trace EXCEPT ![c] = trace[c] \o calls]
  /\ pc' = [pc EXCEPT ![c] = next]
  /\ UNCHANGED result

\* w3.eth.get_transaction_count(account.address): the mined transactions of
\* the account
\* the nonce taken one ahead of the transaction count
FetchNonceAhead(c) ==
  /\ pc[c] = "nonce"
  /\ \E up \in BOOLEAN :
       IF up
         THEN /\ StepOp(c, "gasprice",
                        <<RpcAns("get_transaction_count", loc[c].address,
                                 nonce[loc[c].address])>>)
              /\ loc' = [loc EXCEPT ![c].nonce = nonce[loc[c].address] + 1]
       ELSE /\ EndOp(c, Raise("ConnectionError"),
                     <<Rpc("get_transaction_count", loc[c].address,
                           "transport")>>)
            /\ UNCHANGED loc
  /\ UNCHANGED <<codecVars, clientVars, chainVars, call>>

FetchNonce(c) ==
  /\ pc[c] = "nonce"
  /\ \E up \in BOOLEAN :
       IF up
         THEN /\ StepOp(c, "gasprice",
                        <<RpcAns("get_transaction_count", loc[c].address,
                                 nonce[loc[c].address])>>)
              /\ loc' = [loc EXCEPT ![c].nonce = nonce[loc[c].address]]
       ELSE /\ EndOp(c, Raise("ConnectionError"),
                     <<Rpc("get_transaction_count", loc[c].address,
                           "transport")>>)
            /\ UNCHANGED loc
  /\ UNCHANGED <<codecVars, clientVars, chainVars, call>>

\* w3.eth.gas_price, then build_transaction and sign_transaction
FetchGasPrice(c) ==
  /\ pc[c] = "gasprice"
  /\ \E up \in BOOLEAN :
       IF up THEN StepOp(c, "send", <<Rpc("gas_price", << >>, "ok")>>)
       ELSE EndOp(c, Raise("ConnectionError"),
                  <<Rpc("gas_price", << >>, "transport")>>)
  /\ UNCHANGED <<codecVars, clientVars, chainVars, call, loc>>

\* the pending transactions of an account that hold a nonce
PendingAt(address, n) ==
  {i \in 1..Len(txs) : /\ txs[i].status = "pending"
                       /\ txs[i].from = address
                       /\ txs[i].nonce = n}

\* w3.eth.send_raw_transaction: the node takes the transaction into its
\* pool, in the place of a pending one with the same nonce if there is one,
\* or refuses it; it refuses a nonce already used
Send(c) ==
  /\ pc[c] = "send"
  /\ \E accepted \in BOOLEAN :
       IF accepted /\ loc[c].nonce >= nonce[loc[c].address]
         THEN /\ txs' = Append([i \in 1..Len(txs) |->
                                  IF i \in PendingAt(loc[c].address, loc[c].nonce)
                                    THEN [txs[i] EXCEPT !.status = "dropped"]
                                  ELSE txs[i]],
                               [from |-> loc[c].address, nonce |-> loc[c].nonce,
                                func |-> loc[c].func, gas |-> loc[c].gas,
                                status |-> "pending", minted |-> 0])
              /\ loc' = [loc EXCEPT ![c].tx = Len(txs) + 1]
              /\ StepOp(c, "wait",
                        <<Rpc("send_raw_transaction", Len(txs) + 1, "ok")>>)
       ELSE /\ EndOp(c, Raise("Web3RPCError"),
                     <<Rpc("send_raw_transaction", 0, "refused")>>)
            /\ UNCHANGED <<txs, loc>>
  /\ UNCHANGED <<codecVars, clientVars, owner, tokenUri, nonce, feedback, call>>

\* tx_hash.hex() of the transaction in place i
TxHashHex(i) == HexBytesHex(<<i>>)

\* what set_agent_uri and give_feedback return
WriteResult(c) ==
  LET tx_hash == TxHashHex(loc[c].tx)
      explorer_url == <<Explorer, "/tx/", tx_hash>>
  IN  IF call[c].op = "set_agent_uri"
        THEN [agent_id |-> loc[c].func.args[1],
              new_uri |-> loc[c].func.args[2],
              tx_hash |-> tx_hash,
              explorer_url |-> explorer_url]
      ELSE [agent_id |-> loc[c].func.args[1],
            value |-> call[c].value,
            decimals |-> call[c].decimals,
            tag1 |-> "",
            tag2 |-> "",
            tx_hash |-> tx_hash,
            explorer_url |-> explorer_url]

\* w3.eth.wait_for_transaction_receipt(tx_hash): returns once the
\* transaction is in a block, whatever its status; gives up after its
\* timeout while the transaction is not in one; fails with the transport
Wait(c) ==
  /\ pc[c] = "wait"
  /\ \E up \in BOOLEAN :
       IF ~up
         THEN EndOp(c, Raise("ConnectionError"),
                    <<Rpc("wait_for_transaction_receipt", loc[c].tx,
                          "transport")>>)
       ELSE IF txs[loc[c].tx].status \in {"pending", "dropped"}
         THEN EndOp(c, Raise("TimeExhausted"),
                    <<Rpc("wait_for_transaction_receipt", loc[c].tx,
                          "timeout")>>)
       ELSE IF call[c].op \in {"register", "register_agent"}
         THEN StepOp(c, "receipt",
                     <<Rpc("wait_for_transaction_receipt", loc[c].tx, "ok")>>)
       ELSE EndOp(c, Return(WriteResult(c)),
                  <<Rpc("wait_for_transaction_receipt", loc[c].tx, "ok")>>)
  /\ UNCHANGED <<codecVars, clientVars, chainVars, call, loc>>

\* the logs a receipt can hold
TransferLog(id) ==
  [topics |-> <<TransferSignature, Word(0), Word(161), Word(id)>>]
ShortTransferLog == [topics |-> <<TransferSignature, Word(0), Word(161)>>]
OtherLog == [topics |-> <<[k \in 1..32 |-> 17], Word(0), Word(161), Word(99)>>]
AnonymousLog == [topics |-> << >>]

\* the logs of the receipt of a register transaction that minted id
ReceiptLogs(id) ==
  { << >>, <<OtherLog>>, <<ShortTransferLog>>, <<TransferLog(id)>>,
    <<OtherLog, TransferLog(id)>>, <<AnonymousLog, TransferLog(id)>>,
    <<ShortTransferLog, TransferLog(id), OtherLog>>,
    <<TransferLog(7), TransferLog(id)>> }

\* register after _build_and_send_tx: w3.eth.get_transaction_receipt and the
\* scan of its logs
GetReceipt(c) ==
  /\ pc[c] = "receipt"
  /\ \E up \in BOOLEAN :
       IF ~up
         THEN /\ EndOp(c, Raise("ConnectionError"),
                       <<Rpc("get_transaction_receipt", loc[c].tx,
                             "transport")>>)
              /\ UNCHANGED loc
       ELSE \E logs \in IF txs[loc[c].tx].status = "success"
                          THEN ReceiptLogs(txs[loc[c].tx].minted)
                        ELSE {<< >>} :
              /\ loc' = [loc EXCEPT ![c].logs = logs]
              /\ EndOp(c, Return([agent_id |-> agent_id_of(logs),
                                  tx_hash |-> TxHashHex(loc[c].tx),
                                  owner |-> loc[c].address,
                                  explorer_url |->
                                    <<Explorer, "/tx/", TxHashHex(loc[c].tx)>>]),
                       <<Rpc("get_transaction_receipt", loc[c].tx, "ok")>>)
  /\ UNCHANGED <<codecVars, clientVars, chainVars, call>>

\* whether the contract lets the call of a transaction through
Allowed(tx) ==
  IF tx.func.name = "register" THEN AgentIds \ Minted # {}
  ELSE IF tx.func.name = "setAgentURI"
    THEN tx.func.args[1] \in Minted /\ owner[tx.func.args[1]] = tx.from
  ELSE tx.func.args[1] \in Minted

\* the chain puts the pending transaction in place i in a block: its call
\* takes effect, or it reverts (refused by the contract, or out of gas) and
\* changes nothing but the nonce of its sender
Mine(i) ==
  /\ txs[i].status = "pending"
  /\ txs[i].nonce = nonce[txs[i].from]
  /\ nonce' = [nonce EXCEPT ![txs[i].from] = nonce[txs[i].from] + 1]
  /\ \E runs \in BOOLEAN :
       IF runs /\ Allowed(txs[i])
         THEN LET id == IF txs[i].func.name = "register"
                          THEN CHOOSE k \in AgentIds \ Minted :
                                 \A j \in AgentIds \ Minted : k <= j
                        ELSE txs[i].func.args[1]
              IN  /\ txs' = [txs EXCEPT ![i].status = "success",
                                        ![i].minted =
                                          IF txs[i].func.name = "register"
                                            THEN id ELSE 0]
                  /\ owner' = IF txs[i].func.name = "register"
                                THEN [owner EXCEPT ![id] = txs[i].from]
                              ELSE owner
                  /\ tokenUri' =
                       IF txs[i].func.name = "register"
                         THEN [tokenUri EXCEPT ![id] =
                                 IF txs[i].func.args = << >> THEN << >>
                                 ELSE txs[i].func.args[1]]
                       ELSE IF txs[i].func.name = "setAgentURI"
                         THEN [tokenUri EXCEPT ![id] = txs[i].func.args[2]]
                       ELSE tokenUri
                  /\ feedback' =
                       IF txs[i].func.name = "giveFeedback"
                         THEN feedback \cup {[agent_id |-> id,
                                              client |-> txs[i].from,
                                              value |-> txs[i].func.args[2],
                                              decimals |-> txs[i].func.args[3]]}
                       ELSE feedback
       ELSE /\ txs' = [txs EXCEPT ![i].status = "reverted"]
            /\ UNCHANGED <<owner, tokenUri, feedback>>
  /\ UNCHANGED <<codecVars, clientVars, procVars>>

Next ==
  \/ Register("c1")
  \/ RegisterAgent("c1")
  \/ SetAgentUri("c1")
  \/ GiveFeedback("c1")
  \/ FetchNonce("c1")
  \/ FetchGasPrice("c1")
  \/ Send("c1")
  \/ Wait("c1")
  \/ GetReceipt("c1")
  \/ Forget("c1")
  \/ \E i \in 1..Len(txs) : Mine(i)

Spec == InitWrite /\ [][Next]_vars

-----------------------------------------------------------------------------
(* Two callers of one client: their write methods run as threads of one    *)
(* process, a step of either at a time                                     *)

\* the keys of two signers, "0xa1" and "b2"
SignerArgs == { <<48, 120>> \o KeyA, KeyB }

\* set_agent_uri(key, 1, "http://y") by either caller
SetAgentUriBy(c) ==
  /\ CanStart(c)
  /\ \E private_key \in SignerArgs :
       set_agent_uri(c, private_key, PyInt(1),
                     PyStr(<<104, 116, 116, 112, 58, 47, 47, 121>>))
  /\ UNCHANGED <<codecVars, clientVars, chainVars>>

Writer(c) ==
  \/ SetAgentUriBy(c)
  \/ FetchNonce(c)
  \/ FetchGasPrice(c)
  \/ Send(c)
  \/ Wait(c)
  \/ Forget(c)

NextConcurrent ==
  \/ Writer("c1")
  \/ Writer("c2")
  \/ \E i \in 1..Len(txs) : Mine(i)

SpecConcurrent == InitWrite /\ [][NextConcurrent]_vars

-----------------------------------------------------------------------------
(* One caller of one client, reading and writing in turn, against the      *)
(* chain that mines what it was sent                                       *)

\* a client of the same kind with its configuration rebound by the call
GetNetworkInfoRebinding(c) ==
  /\ pc[c] = "idle"
  /\ result[c] = NoResult
  /\ Finish(c, [op |-> "get_network_info"],
            [res |-> Return(get_network_info), trace |-> << >>])
  /\ network' = Mainnet
  /\ UNCHANGED <<codecVars, hexPrefixed, chainVars, pc, loc>>

\* get_network_info()
GetNetworkInfo(c) ==
  /\ pc[c] = "idle"
  /\ result[c] = NoResult
  /\ Finish(c, [op |-> "get_network_info"],
            [res |-> Return(get_network_info), trace |-> << >>])
  /\ UNCHANGED <<codecVars, clientVars, chainVars, pc, loc>>

\* register(key) with the key "b2"
RegisterBy(c) ==
  /\ CanStart(c)
  /\ Cardinality(Minted) + Cardinality(PendingRegisters) < MaxAgents
  /\ register(c, [op |-> "register", private_key |-> KeyB,
                  agent_uri_or_metadata |-> PyNone], KeyB, PyNone)
  /\ UNCHANGED <<codecVars, clientVars, chainVars>>

NextClient ==
  \/ AgentExists("c1")
  \/ GetAgent("c1")
  \/ GetAgentCount("c1")
  \/ GetReputation("c1")
  \/ GetNetworkInfo("c1")
  \/ RegisterBy("c1")
  \/ SetAgentUriBy("c1")
  \/ FetchNonce("c1")
  \/ FetchGasPrice("c1")
  \/ Send("c1")
  \/ Wait("c1")
  \/ GetReceipt("c1")
  \/ Forget("c1")
  \/ \E i \in 1..Len(txs) : Mine(i)

SpecClient == InitWrite /\ [][NextClient]_vars

-----------------------------------------------------------------------------
(* A writer and a reader of one client: the writer registers agents with   *)
(* metadata and sets metadata, the reader looks agents up                  *)

\* {"k": 7} and {}
MetadataArgs == { PyDict(<< <<(<<107>>), PyInt(7)>> >>), PyDict(<< >>) }

\* set_agent_uri(key, 1, metadata) with the key of the owner or another
SetAgentUriTo(c) ==
  /\ CanStart(c)
  /\ \E private_key \in SignerArgs, metadata \in MetadataArgs :
       set_agent_uri(c, private_key, PyInt(1), metadata)
  /\ UNCHANGED <<codecVars, clientVars, chainVars>>

\* register_agent(key, "A") with the key "b2"
RegisterAgentBy(c) ==
  /\ CanStart(c)
  /\ Cardinality(Minted) + Cardinality(PendingRegisters) < MaxAgents
  /\ register(c, [op |-> "register_agent", private_key |-> KeyB,
                  name |-> PyStr(<<65>>)],
              KeyB,
              create_registration_metadata(PyStr(<<65>>), PyStr(<< >>),
                                           PyStr(<< >>), PyNone, PyNone))
  /\ UNCHANGED <<codecVars, clientVars, chainVars>>

NextRoundTrip ==
  \/ SetAgentUriTo("c1")
  \/ RegisterAgentBy("c1")
  \/ FetchNonce("c1")
  \/ FetchGasPrice("c1")
  \/ Send("c1")
  \/ Wait("c1")
  \/ GetReceipt("c1")
  \/ Forget("c1")
  \/ \E i \in 1..Len(txs) : Mine(i)
  \/ GetAgent("c2")
  \/ Forget("c2")

SpecRoundTrip == InitWrite /\ [][NextRoundTrip]_vars

-----------------------------------------------------------------------------
(* cli.py: one invocation of the command line, against a chain that only   *)
(* a registration changes                                                  *)

\* one print: to stdout as JSON (a list of key and value pairs) or as a
\* line of text, or a line to stderr
Out(kind, body) == [stream |-> "stdout", kind |-> kind, body |-> body]
Err(body) == [stream |-> "stderr", kind |-> "text", body |-> body]

\* run_command came back or called sys.exit(code), having printed prints
Ran(prints, code) ==
  [prints |-> prints, code |-> code, threw |-> FALSE, raised |-> "-"]
\* run_command raised e, having printed prints
Threw(prints, e) ==
  [prints |-> prints, code |-> 1, threw |-> TRUE, raised |-> e]
\* argparse gave up on the arguments
UsageError == [prints |-> <<Err(<<"usage: ...">>)>>, code |-> 2]

\* main around run_command: an exception becomes {"error": str(e)} on stdout
\* with --json, "Error: ..." on stderr without, and exit code 1
cli_main(json_output, run) ==
  IF ~run.threw THEN [prints |-> run.prints, code |-> run.code]
  ELSE [prints |-> run.prints
                     \o <<IF json_output
                            THEN Out("json", << <<"error", run.raised>> >>)
                          ELSE Err(<<"Error: {e}", run.raised>>)>>,
        code |-> 1]

\* dict.get(key, default)
DictGet(d, key, default) ==
  IF \E n \in 1..Len(d.items) : d.items[n][1] = key
    THEN d.items[CHOOSE n \in 1..Len(d.items) : d.items[n][1] = key][2]
  ELSE default

\* the lines of the agent command up to the metadata
agent_head(agent, network_arg) ==
  << Out("text", <<"Agent #{agent_id} ({network})", agent.agent_id,
                   network_arg>>),
     Out("text", <<"----">>),
     Out("text", <<"Owner:    ", agent.owner>>),
     Out("text", <<"URI:      ", IF Truthy(agent.token_uri)
                                   THEN agent.token_uri ELSE "(not set)">>) >>

\* the lines about the metadata: .get on what is no dict, len() of a
\* description that has no length, raise
agent_about(head, metadata, explorer_url) ==
  IF ~Truthy(metadata)
    THEN Ran(head \o <<Out("text", <<"Explorer: ", explorer_url>>)>>, 0)
  ELSE IF metadata.t # "dict" THEN Threw(head, "AttributeError")
  ELSE LET name == Out("text", <<"Name:     ",
                                 DictGet(metadata, <<110, 97, 109, 101>>,
                                         "(unknown)")>>)
           desc == DictGet(metadata, <<100, 101, 115, 99, 114, 105, 112, 116,
                                       105, 111, 110>>, PyStr(<< >>))
       IN  IF ~Truthy(desc)
             THEN Ran(head \o <<name, Out("text", <<"Explorer: ", explorer_url>>)>>,
                      0)
           ELSE IF desc.t \notin {"str", "list", "dict"}
             THEN Threw(head \o <<name>>, "TypeError")
           ELSE Ran(head \o <<name, Out("text", <<"About:    ", desc>>),
                              Out("text", <<"Explorer: ", explorer_url>>)>>, 0)

\* the agent command; agent: what get_agent gave
cli_agent(json_output, id, network_arg, agent) ==
  IF new_client(network_arg).kind = "raise"
    THEN Threw(<< >>, new_client(network_arg).err)
  ELSE IF agent.val = PyNone
    THEN Ran(<<IF json_output
                 THEN Out("json", << <<"error", "Agent not found">>,
                                     <<"agent_id", id>>,
                                     <<"network", network_arg>> >>)
               ELSE Out("text", <<"Agent {id} not found on {network}", id,
                                  network_arg>>)>>, 1)
  ELSE IF json_output
    THEN Ran(<<Out("json", << <<"agent_id", agent.val.agent_id>>,
                             <<"token_uri", agent.val.token_uri>>,
                             <<"owner", agent.val.owner>>,
                             <<"metadata", agent.val.metadata>>,
                             <<"explorer_url", agent.val.explorer_url>> >>)>>,
             0)
  ELSE agent_about(agent_head(agent.val, network_arg), agent.val.metadata,
                   agent.val.explorer_url)

\* the exists command; exists: what agent_exists gave
cli_exists(json_output, id, network_arg, exists) ==
  IF new_client(network_arg).kind = "raise"
    THEN Threw(<< >>, new_client(network_arg).err)
  ELSE Ran(<<IF json_output
               THEN Out("json", << <<"agent_id", id>>, <<"exists", exists.val>>,
                                   <<"network", network_arg>> >>)
             ELSE Out("text", <<"Agent {id} {status} on {network}", id,
                                exists.val, network_arg>>)>>, 0)

\* the owner command; count: what get_agent_count gave or raised
cli_owner(json_output, address, network_arg, count) ==
  IF new_client(network_arg).kind = "raise"
    THEN Threw(<< >>, new_client(network_arg).err)
  ELSE IF count.kind = "raise" THEN Threw(<< >>, count.err)
  ELSE Ran(<<IF json_output
               THEN Out("json", << <<"address", address>>,
                                   <<"agent_count", count.val>>,
                                   <<"network", network_arg>> >>)
             ELSE Out("text", <<"Address {address} owns {count} agent(s)", address,
                                count.val, network_arg>>)>>, 0)

\* the register command up to the call of the client; registered: what
\* register or register_agent gave or raised
cli_register(json_output, private_key, name, uri, network_arg, registered) ==
  IF ~Truthy(private_key)
    THEN Ran(<<Err(<<"Error: PRIVATE_KEY environment variable required">>),
               Err(<<"Usage: PRIVATE_KEY=0x... erc-800claw register">>)>>, 1)
  ELSE IF ~Truthy(name) /\ ~Truthy(uri)
    THEN Ran(<<Err(<<"Error: --name or --uri required for registration">>)>>,
             1)
  ELSE IF new_client(network_arg).kind = "raise"
    THEN Threw(<< >>, new_client(network_arg).err)
  ELSE IF registered.kind = "raise" THEN Threw(<< >>, registered.err)
  ELSE IF json_output
    THEN Ran(<<Out("json", << <<"agent_id", registered.val.agent_id>>,
                             <<"tx_hash", registered.val.tx_hash>>,
                             <<"owner", registered.val.owner>>,
                             <<"explorer_url",
                               registered.val.explorer_url>> >>)>>, 0)
  ELSE Ran(<< Out("text", <<"Agent Registered on ", network_arg>>),
              Out("text", <<"----">>),
              Out("text", <<"Agent ID: ", registered.val.agent_id>>),
              Out("text", <<"Owner:    ", registered.val.owner>>),
              Out("text", <<"Tx:       ", registered.val.tx_hash>>),
              Out("text", <<"Explorer: ", registered.val.explorer_url>>) >>, 0)

\* the lines of the networks command about one network
network_lines(name) ==
  << Out("text", <<"{name} (Chain ID: {chain_id})", name,
                   NETWORKS[name].chain_id>>),
     Out("text", <<"  Identity:   ", NETWORKS[name].contracts.identity_registry>>),
     Out("text", <<"  Reputation: ", NETWORKS[name].contracts.reputation_registry>>),
     Out("text", <<"  Explorer:   ", NETWORKS[name].explorer>>) >>

cli_networks(json_output) ==
  IF json_output
    THEN Ran(<<Out("json", << <<"mainnet", NETWORKS[Mainnet]>>,
                             <<"sepolia", NETWORKS[Sepolia]>> >>)>>, 0)
  ELSE Ran(<<Out("text", <<"Supported Networks">>), Out("text", <<"----">>)>>
             \o network_lines(Mainnet) \o network_lines(Sepolia), 0)

ZeroAddress == "0x0000000000000000000000000000000000000000"

\* the contracts command; target: the network named after the command or,
\* without one, the network of the invocation
cli_contracts(json_output, target) ==
  IF get_contracts(target).kind = "raise"
    THEN Threw(<< >>, get_contracts(target).err)
  ELSE IF json_output
    THEN Ran(<<Out("json",
                   << <<"network", target>>,
                      <<"identity_registry",
                        get_contracts(target).val.identity_registry>>,
                      <<"reputation_registry",
                        get_contracts(target).val.reputation_registry>>,
                      <<"validation_registry",
                        get_contracts(target).val.validation_registry>> >>)>>,
             0)
  ELSE Ran(<< Out("text", <<"ERC-8004 Contracts on ", target>>),
              Out("text", <<"----">>),
              Out("text", <<"Identity Registry:   ",
                            get_contracts(target).val.identity_registry>>),
              Out("text", <<"Reputation Registry: ",
                            get_contracts(target).val.reputation_registry>>),
              Out("text",
                  IF get_contracts(target).val.validation_registry
                       # ZeroAddress
                    THEN <<"Validation Registry: ",
                           get_contracts(target).val.validation_registry>>
                  ELSE <<"Validation Registry: (not deployed)">>) >>, 0)

\* a data URI of {"k": 7}, of [1], of {"description": 7} and of
\* {"name": "n", "description": "d"}
CliUris ==
  { << >>,
    create_data_uri(PyDict(<< <<(<<107>>), PyInt(7)>> >>)),
    create_data_uri(PyList(<<PyInt(1)>>)),
    create_data_uri(PyDict(<< <<(<<100, 101, 115, 99, 114, 105, 112, 116,
                                  105, 111, 110>>), PyInt(7)>> >>)),
    create_data_uri(PyDict(<< <<(<<110, 97, 109, 101>>), PyStr(<<110>>)>>,
                              <<(<<100, 101, 115, 99, 114, 105, 112, 116,
                                   105, 111, 110>>), PyStr(<<100>>)>> >>)) }

\* the network named on the command line: the one of the chain, or "x"
NetworkArgs == {network, <<120>>}

NoHttp == [out |-> "error", body |-> PyNone]

InitCli ==
  /\ CodecIdle
  /\ CallersIdle
  /\ NoTransactions
  /\ network \in DOMAIN NETWORKS
  /\ hexPrefixed \in BOOLEAN
  /\ owner \in [AgentIds -> {"0xA1", NoOwner}]
  /\ \E u \in CliUris :
       tokenUri = [i \in AgentIds |->
                     IF i = 1 /\ owner[i] # NoOwner THEN u ELSE << >>]

\* an invocation ends: what was printed and the exit code
Invoked(c, op, done) ==
  /\ pc[c] = "idle"
  /\ result[c] = NoResult
  /\ call' = [call EXCEPT ![c] = op]
  /\ result' = [result EXCEPT ![c] = Return(done)]
  /\ UNCHANGED <<codecVars, clientVars, pc, loc, trace>>

CliAgent(c) ==
  /\ \E json_output \in BOOLEAN, id \in {PyInt(1), PyInt(2), PyStr(<<97>>)},
        network_arg \in NetworkArgs, up1 \in BOOLEAN, up2 \in BOOLEAN :
       Invoked(c, [op |-> "cli", command |-> "agent", json |-> json_output,
                   id |-> id, network |-> network_arg],
               IF id.t # "int" THEN UsageError
               ELSE cli_main(json_output,
                             cli_agent(json_output, id.n, network_arg,
                                       get_agent(id, up1, up2, NoHttp).res)))
  /\ UNCHANGED chainVars

CliExists(c) ==
  /\ \E json_output \in BOOLEAN, id \in {PyInt(1), PyInt(2), PyStr(<<97>>)},
        network_arg \in NetworkArgs, up \in BOOLEAN :
       Invoked(c, [op |-> "cli", command |-> "exists", json |-> json_output,
                   id |-> id, network |-> network_arg],
               IF id.t # "int" THEN UsageError
               ELSE cli_main(json_output,
                             cli_exists(json_output, id.n, network_arg,
                                        agent_exists(id, up).res)))
  /\ UNCHANGED chainVars

CliOwner(c) ==
  /\ \E json_output \in BOOLEAN, address \in {"0xa1", "0x00", "bogus"},
        network_arg \in NetworkArgs, up \in BOOLEAN :
       Invoked(c, [op |-> "cli", command |-> "owner", json |-> json_output,
                   address |-> address, network |-> network_arg],
               cli_main(json_output,
                        cli_owner(json_output, address, network_arg,
                                  get_agent_count(address, up).res)))
  /\ UNCHANGED chainVars

\* what register and register_agent can come to for a key: the error of a
\* malformed key, the error of the transport, or the record of a
\* transaction that minted id
Registered(private_key, id) ==
  IF ~_get_account(private_key.s).ok THEN {Raise("ValueError")}
  ELSE { Raise("ConnectionError"),
         Return([agent_id |-> IF hexPrefixed THEN PyInt(id) ELSE PyNone,
                 tx_hash |-> TxHashHex(Len(txs) + 1),
                 owner |-> _get_account(private_key.s).address,
                 explorer_url |-> <<Explorer, "/tx/",
                                    TxHashHex(Len(txs) + 1)>>]) }

\* the chain after the register command: with a record returned the
\* transaction is mined and the agent minted
Minting(registered, id, agent_uri) ==
  IF registered.kind = "return"
    THEN /\ owner' = [owner EXCEPT ![id] = registered.val.owner]
         /\ tokenUri' = [tokenUri EXCEPT ![id] = agent_uri]
         /\ nonce' = [nonce EXCEPT ![registered.val.owner] = @ + 1]
         /\ txs' = Append(txs, [from |-> registered.val.owner,
                                nonce |-> nonce[registered.val.owner],
                                func |-> [name |-> "register",
                                          args |-> <<agent_uri>>],
                                gas |-> 500000, status |-> "success",
                                minted |-> id])
         /\ UNCHANGED feedback
  ELSE UNCHANGED chainVars

CliRegister(c) ==
  \E json_output \in BOOLEAN, network_arg \in NetworkArgs,
     private_key \in {PyNone, PyStr(<<48, 120>> \o KeyA), PyStr(<<122, 122>>)},
     name \in {PyNone, PyStr(<<65>>)},
     uri \in {PyNone, PyStr(<<104, 116, 116, 112, 58, 47, 47, 120>>)} :
    LET reaches == /\ Truthy(private_key)
                   /\ Truthy(name) \/ Truthy(uri)
                   /\ new_client(network_arg).kind = "return"
        agent_uri == IF Truthy(uri) THEN uri.s
                     ELSE create_data_uri(
                            create_registration_metadata(
                              name, PyStr(<< >>), PyStr(<< >>), PyNone, PyNone))
        op == [op |-> "cli", command |-> "register", json |-> json_output,
               network |-> network_arg, private_key |-> private_key,
               name |-> name, uri |-> uri]
    IN  IF ~reaches
          THEN /\ Invoked(c, op,
                          cli_main(json_output,
                                   cli_register(json_output, private_key, name,
                                                uri, network_arg, NoResult)))
               /\ UNCHANGED chainVars
        ELSE \E id \in AgentIds \ {i \in AgentIds : owner[i] # NoOwner} :
               \E registered \in Registered(private_key, id) :
                 /\ Len(txs) < MaxTx
                 /\ Invoked(c, op,
                            cli_main(json_output,
                                     cli_register(json_output, private_key,
                                                  name, uri, network_arg,
                                                  registered)))
                 /\ Minting(registered, id, agent_uri)

CliNetworks(c) ==
  /\ \E json_output \in BOOLEAN, network_arg \in NetworkArgs :
       Invoked(c, [op |-> "cli", command |-> "networks", json |-> json_output,
                   network |-> network_arg],
               cli_main(json_output, cli_networks(json_output)))
  /\ UNCHANGED chainVars

CliContracts(c) ==
  /\ \E json_output \in BOOLEAN, network_arg \in NetworkArgs,
        target_network \in {PyNone, PyStr(<<83, 69, 80, 79, 76, 73, 65>>),
                            PyStr(<<121>>)} :
       Invoked(c, [op |-> "cli", command |-> "contracts",
                   json |-> json_output, network |-> network_arg,
                   target_network |-> target_network],
               cli_main(json_output,
                        cli_contracts(json_output,
                                      IF Truthy(target_network)
                                        THEN target_network.s
                                      ELSE network_arg)))
  /\ UNCHANGED chainVars

NextCli ==
  \/ CliAgent("c1")
  \/ CliExists("c1")
  \/ CliOwner("c1")
  \/ CliRegister("c1")
  \/ CliNetworks("c1")
  \/ CliContracts("c1")
  \/ Forget("c1")

SpecCli == InitCli /\ [][NextCli]_vars

-----------------------------------------------------------------------------
(* The JSON grammar of RFC 8259, stated on its own: what a valid JSON text *)
(* is, whatever the parser does                                            *)

JsonTrim(s) == StripRight(StripLeft(s))

IsDigits(s) == s # << >> /\ \A k \in 1..Len(s) : IsDigit(s[k])
IsIntPart(s) == IsDigits(s) /\ (Len(s) = 1 \/ s[1] # 48)
IsFrac(s) == Len(s) >= 2 /\ s[1] = 46 /\ IsDigits(Tail(s))
IsExp(s) ==
  /\ Len(s) >= 2
  /\ s[1] \in {101, 69}
  /\ IsDigits(Tail(s)) \/ (s[2] \in {43, 45} /\ IsDigits(Drop(s, 2)))
IsUnsigned(s) ==
  \E a \in 1..Len(s), b \in 1..Len(s) :
    /\ a <= b
    /\ IsIntPart(Take(s, a))
    /\ a = b \/ IsFrac(SubSeq(s, a + 1, b))
    /\ b = Len(s) \/ IsExp(Drop(s, b))
IsJsonNumber(s) ==
  s # << >> /\ (IF s[1] = 45 THEN IsUnsigned(Tail(s)) ELSE IsUnsigned(s))

RECURSIVE IsJsonChars(_)
IsJsonChars(s) ==
  \/ s = << >>
  \/ s[1] \notin {34, 92} /\ s[1] >= 32 /\ IsJsonChars(Tail(s))
  \/ /\ Len(s) >= 2
     /\ s[1] = 92
     /\ s[2] \in {34, 92, 47, 98, 102, 110, 114, 116}
     /\ IsJsonChars(Drop(s, 2))
  \/ /\ Len(s) >= 6
     /\ s[1] = 92
     /\ s[2] = 117
     /\ \A k \in 3..6 : HexVal(s[k]) >= 0
     /\ IsJsonChars(Drop(s, 6))
IsJsonString(s) ==
  Len(s) >= 2 /\ s[1] = 34 /\ s[Len(s)] = 34
    /\ IsJsonChars(SubSeq(s, 2, Len(s) - 1))

RECURSIVE IsJsonValue(_), IsJsonElements(_), IsJsonMembers(_)
IsJsonValue(s) ==
  \/ s \in { <<110, 117, 108, 108>>, <<116, 114, 117, 101>>,
             <<102, 97, 108, 115, 101>> }
  \/ IsJsonNumber(s)
  \/ IsJsonString(s)
  \/ /\ Len(s) >= 2
     /\ s[1] = 91
     /\ s[Len(s)] = 93
     /\ LET inner == SubSeq(s, 2, Len(s) - 1)
        IN  JsonTrim(inner) = << >> \/ IsJsonElements(inner)
  \/ /\ Len(s) >= 2
     /\ s[1] = 123
     /\ s[Len(s)] = 125
     /\ LET inner == SubSeq(s, 2, Len(s) - 1)
        IN  JsonTrim(inner) = << >> \/ IsJsonMembers(inner)
IsJsonElements(s) ==
  \/ IsJsonValue(JsonTrim(s))
  \/ \E k \in 1..Len(s) :
       /\ s[k] = 44
       /\ IsJsonValue(JsonTrim(Take(s, k - 1)))
       /\ IsJsonElements(Drop(s, k))
IsJsonMembers(s) ==
  LET IsMember(m) ==
        \E c \in 1..Len(m) :
          /\ m[c] = 58
          /\ IsJsonString(JsonTrim(Take(m, c - 1)))
          /\ IsJsonValue(JsonTrim(Drop(m, c)))
  IN  \/ IsMember(s)
      \/ \E k \in 1..Len(s) :
           /\ s[k] = 44
           /\ IsMember(Take(s, k - 1))
           /\ IsJsonMembers(Drop(s, k))

IsJsonText(s) == IsJsonValue(JsonTrim(s))

\* the text the payload of a prefixed URI decodes to, if it decodes
PayloadText(uri) ==
  LET b64 == Drop(uri, Len(DataUriPrefix))
      raw == B64Decode(b64)
      text == Utf8Decode(raw.bytes)
  IN  [ok |-> (\A n \in 1..Len(b64) : b64[n] < 128) /\ raw.ok /\ text.ok,
       text |-> text.text]

-----------------------------------------------------------------------------
(* Claims about the codec, checked under SpecCodec *)

\* C3: for every JSON metadata object m (nested objects, lists, non-ASCII
\* text), create_data_uri(m) starts with "data:application/json;base64,"
\* and parse_data_uri gives m back.
C3_RoundTrip ==
  codecMeta # Nothing =>
    /\ StartsWith(codecUri, DataUriPrefix)
    /\ codecRes # NoResult => codecRes = Return(codecMeta)

\* a nested object with non-ASCII text has made the round trip
C3_Witness ==
  /\ codecMeta # Nothing
  /\ codecRes.kind = "return"
  /\ codecMeta.items # << >>
  /\ codecMeta.items[1][2].t \in {"list", "dict"}
  /\ \E k \in 1..Len(Dumps(codecMeta)) : Dumps(codecMeta)[k] = 92

\* C4: parse_data_uri fails with the invalid-data-URI error for every string
\* that does not start with the prefix, and with the malformed-JSON error
\* for every prefixed string whose payload decodes to text that is not
\* valid JSON.
C4_BadInputFails ==
  (codecMeta = Nothing /\ codecRes # NoResult) =>
    /\ ~StartsWith(codecUri, DataUriPrefix) =>
         codecRes = Raise("ValueError: Invalid data URI format")
    /\ (/\ StartsWith(codecUri, DataUriPrefix)
        /\ PayloadText(codecUri).ok
        /\ ~IsJsonText(PayloadText(codecUri).text)) =>
         codecRes = Raise("JSONDecodeError")

-----------------------------------------------------------------------------
(* Claims about the read methods, checked under SpecRead *)

ReadOps == {"agent_exists", "get_agent", "get_agent_count", "get_reputation"}

\* caller c has finished the operation op
Done(c, op) == call[c].op = op /\ result[c] # NoResult

\* the k-th call of caller c's operation was the contract call name and
\* ended as out
Called(c, k, name, out) ==
  Len(trace[c]) >= k /\ trace[c][k].call = name /\ trace[c][k].out = out

\* a contract call of caller c's operation reverted or lost the transport
ViewFailed(c) ==
  \E k \in 1..Len(trace[c]) : trace[c][k].out \in {"revert", "transport"}

\* a reviewer address of caller c's get_reputation is not an address
BadReviewer(c) ==
  /\ call[c].client_addresses # PyNone
  /\ \E k \in 1..Len(call[c].client_addresses.items) :
       Checksum(call[c].client_addresses.items[k]) = "invalid"

\* the zero-valued summary of get_reputation
ZeroSummary(v) ==
  /\ v.feedback_count = 0
  /\ v.average_score = PyNone
  /\ v.decimals = 0
  /\ v.raw_value = 0

\* C5: get_agent gives None, and makes no tokenURI call and no fetch, when
\* the owner lookup fails; when the owner lookup succeeds and the URI lookup
\* gives the empty string it gives a record with the id, the looked-up
\* owner, and token_uri and metadata absent.
C5_GetAgent ==
  Done("c1", "get_agent") =>
    LET id == ToInt(call["c1"].agent_id).n
        r == result["c1"]
    IN  /\ (Len(trace["c1"]) >= 1 /\ trace["c1"][1].out # "ok") =>
             /\ r = Return(PyNone)
             /\ Len(trace["c1"]) = 1
             /\ trace["c1"][1].call = "ownerOf"
        /\ (/\ Called("c1", 1, "ownerOf", "ok")
            /\ Called("c1", 2, "tokenURI", "ok")
            /\ tokenUri[id] = << >>) =>
             /\ r.kind = "return"
             /\ r.val.agent_id = id
             /\ r.val.owner = owner[id]
             /\ r.val.owner # NoOwner
             /\ r.val.token_uri = PyNone
             /\ r.val.metadata = PyNone
             /\ Len(trace["c1"]) = 2

\* an agent with an empty URI has been looked up
C5_Witness ==
  /\ Done("c1", "get_agent")
  /\ Called("c1", 2, "tokenURI", "ok")
  /\ tokenUri[ToInt(call["c1"].agent_id).n] = << >>
  /\ result["c1"].val.token_uri = PyNone

\* C6: agent_exists never raises; it gives true when the ownerOf call
\* succeeds and false whenever the call throws, by revert or by transport.
C6_AgentExists ==
  Done("c1", "agent_exists") =>
    /\ result["c1"].kind = "return"
    /\ result["c1"].val.t = "bool"
    /\ result["c1"].val.b <=> Called("c1", 1, "ownerOf", "ok")
    /\ Called("c1", 1, "ownerOf", "ok") <=>
         /\ ToInt(call["c1"].agent_id).ok
         /\ ~OwnerOfReverts(ToInt(call["c1"].agent_id).n)
         /\ ~ViewFailed("c1")

\* the transport failed under agent_exists for a minted agent
C6_Witness ==
  /\ Done("c1", "agent_exists")
  /\ Called("c1", 1, "ownerOf", "transport")
  /\ ~OwnerOfReverts(ToInt(call["c1"].agent_id).n)
  /\ result["c1"] = Return(PyBool(FALSE))

\* C7: get_reputation never throws: for every agent_id, reviewer list, tag
\* pair and outcome of address normalization and of getSummary it returns
\* a summary, and when the call fails the summary is zero-valued and
\* carries the error description.
C7_NeverThrows ==
  Done("c1", "get_reputation") =>
    /\ result["c1"].kind = "return"
    /\ "error" \in DOMAIN result["c1"].val => ZeroSummary(result["c1"].val)
    /\ (ViewFailed("c1") \/ BadReviewer("c1")) =>
         "error" \in DOMAIN result["c1"].val

\* C8: every read operation degrades gracefully: when its contract view
\* call reverts or the transport fails it returns a placeholder result
\* instead of propagating the failure.
C8_ReadsDegrade ==
  (call["c1"].op \in ReadOps /\ result["c1"] # NoResult /\ ViewFailed("c1"))
    => result["c1"].kind = "return"

\* C9: with reviewers and a getSummary answer (count, raw, decimals),
\* get_reputation gives feedback_count = count, raw_value = raw, decimals =
\* decimals, average_score = raw / 10^decimals (4.5 for (10, 450, 2)), no
\* note and no error, and filters echoing the caller's addresses and tags.
C9_Summary ==
  (Done("c1", "get_reputation") /\ Called("c1", 1, "getSummary", "ok")) =>
    LET answer == trace["c1"][1].ans
        v == result["c1"].val
    IN  /\ result["c1"].kind = "return"
        /\ v.feedback_count = answer[1]
        /\ v.raw_value = answer[2]
        /\ v.decimals = answer[3]
        /\ v.average_score.t = "float"
        /\ v.average_score.num * Pow(10, answer[3])
             = answer[2] * v.average_score.den
        /\ answer = <<10, 450, 2>> =>
             v.average_score.num = 9 /\ v.average_score.den = 2
        /\ DOMAIN v \cap {"note", "error"} = {}
        /\ v.filters = [client_addresses |-> call["c1"].client_addresses.items,
                        tag1 |-> call["c1"].tag1,
                        tag2 |-> call["c1"].tag2]

\* getSummary answered (10, 450, 2) for two reviewers given in mixed case
C9_Witness ==
  /\ Done("c1", "get_reputation")
  /\ Called("c1", 1, "getSummary", "ok")
  /\ trace["c1"][1].ans = <<10, 450, 2>>
  /\ call["c1"].client_addresses = PyList(<<"0xA1", "0xb2">>)
  /\ call["c1"].tag1 = "quality"
  /\ result["c1"].val.feedback_count = 10

\* C10: get_reputation with no reviewer addresses, absent or empty, makes
\* no getSummary call and returns a zero-valued summary with a note and no
\* error.
C10_NoReviewers ==
  (/\ Done("c1", "get_reputation")
   /\ call["c1"].client_addresses \in {PyNone, PyList(<< >>)}) =>
    /\ trace["c1"] = << >>
    /\ result["c1"].kind = "return"
    /\ result["c1"].val.feedback_count = 0
    /\ result["c1"].val.average_score = PyNone
    /\ result["c1"].val.raw_value = 0
    /\ "note" \in DOMAIN result["c1"].val
    /\ "error" \notin DOMAIN result["c1"].val

-----------------------------------------------------------------------------
(* Claims about the write methods, checked under Spec *)

WriteOps == {"register", "register_agent", "set_agent_uri", "give_feedback"}

\* C1: a write operation that returns a result has had its transaction
\* mined and its state change applied; one that raises has a transaction
\* that has not taken effect.
C1_WriteOutcome ==
  (call["c1"].op \in WriteOps /\ pc["c1"] = "idle" /\ result["c1"] # NoResult)
    => /\ result["c1"].kind = "return" =>
            loc["c1"].tx # 0 /\ txs[loc["c1"].tx].status = "success"
       /\ result["c1"].kind = "raise" =>
            loc["c1"].tx = 0 \/ txs[loc["c1"].tx].status # "success"

\* the logs of a receipt that register takes the agent id from: a Transfer
\* signature first, four topics or more
Qualifying(logs) ==
  {k \in 1..Len(logs) : /\ Len(logs[k].topics) >= 4
                        /\ logs[k].topics[1] = TransferSignature}

\* a 32-byte word read as a number
WordValue(w) == HexValue(BytesHex(w))

\* C2: register, its receipt read, returns a result and does not raise;
\* its agent_id is the fourth topic, as an integer, of a log whose first
\* topic is the Transfer signature and that has four topics or more; it is
\* absent when no log qualifies.
C2_AgentIdFromLogs ==
  (/\ call["c1"].op \in {"register", "register_agent"}
   /\ pc["c1"] = "idle"
   /\ trace["c1"] # << >>
   /\ Called("c1", Len(trace["c1"]), "get_transaction_receipt", "ok")) =>
    LET logs == loc["c1"].logs
    IN  /\ result["c1"].kind = "return"
        /\ Qualifying(logs) = {} => result["c1"].val.agent_id = PyNone
        /\ Qualifying(logs) # {} =>
             \E k \in Qualifying(logs) :
               result["c1"].val.agent_id = PyInt(WordValue(logs[k].topics[4]))

-----------------------------------------------------------------------------
(* More claims about get_agent, checked under SpecRead *)

\* ipfs://Qm and the gateway URL it is fetched from
IpfsQm == <<105, 112, 102, 115, 58, 47, 47, 81, 109>>
GatewayQm ==
  <<104, 116, 116, 112, 115, 58, 47, 47, 105, 112, 102, 115, 46, 105, 111, 47,
    105, 112, 102, 115, 47, 81, 109>>

\* C11: once the owner lookup has succeeded get_agent returns a record with
\* that owner and never raises or returns None; a failing tokenURI call
\* gives what an empty URI gives; a data URI that does not decode, a fetch
\* that fails, a response that is not OK and a body that does not parse
\* leave metadata absent and token_uri the URI of the contract; an
\* ipfs:// URI is fetched from the public gateway.
C11_BestEffort ==
  (Done("c1", "get_agent") /\ Called("c1", 1, "ownerOf", "ok")) =>
    LET id == ToInt(call["c1"].agent_id).n
        r == result["c1"]
        t == trace["c1"]
        uri == tokenUri[id]
    IN  /\ r.kind = "return"
        /\ r.val # PyNone
        /\ r.val.agent_id = id
        /\ r.val.owner = owner[id]
        /\ Len(t) >= 2 /\ t[2].call = "tokenURI"
        /\ t[2].out # "ok" =>
             /\ r.val.token_uri = PyNone
             /\ r.val.metadata = PyNone
             /\ Len(t) = 2
        /\ (t[2].out = "ok" /\ uri # << >>) =>
             /\ r.val.token_uri = PyStr(uri)
             /\ (StartsWith(uri, DataUriPrefix)
                   /\ parse_data_uri(uri).kind = "raise") =>
                  r.val.metadata = PyNone /\ Len(t) = 2
             /\ Len(t) = 3 =>
                  /\ t[3].call = "http_get"
                  /\ t[3].out # "ok" => r.val.metadata = PyNone
                  /\ uri = IpfsQm => t[3].arg = GatewayQm
             /\ (uri = IpfsQm \/ StartsWith(uri, HttpPrefix)) => Len(t) = 3

\* the body fetched for an ipfs:// URI did not parse
C11_Witness ==
  /\ Done("c1", "get_agent")
  /\ Len(trace["c1"]) = 3
  /\ tokenUri[ToInt(call["c1"].agent_id).n] = IpfsQm
  /\ trace["c1"][3].out = "badjson"
  /\ result["c1"].val.metadata = PyNone
  /\ result["c1"].val.token_uri = PyStr(IpfsQm)

-----------------------------------------------------------------------------
(* The score give_feedback sends                                           *)

\* caller c is inside give_feedback, past the building of the call
Giving(c) == call[c].op = "give_feedback" /\ pc[c] # "idle"

\* n is an integer nearest to digits / 10^places * 10^decimals
Nearest(n, digits, places, decimals) ==
  LET want == digits * Pow(10, decimals)
      got == n * Pow(10, places)
  IN  /\ 2 * (got - want) <= Pow(10, places)
      /\ 2 * (want - got) <= Pow(10, places)

\* C12: give_feedback passes to giveFeedback, as its value, an integer
\* nearest to the score the caller wrote times 10^decimals (4.5 with two
\* decimals gives 450), and passes decimals next to it; the transaction it
\* submits carries that call.
C12_FixedPoint ==
  Giving("c1") =>
    LET v == call["c1"].value
        d == call["c1"].decimals
        f == loc["c1"].func
    IN  /\ f.name = "giveFeedback"
        /\ Nearest(f.args[2], v.digits, v.places, d)
        /\ f.args[3] = d
        /\ (v.digits = 45 /\ v.places = 1 /\ d = 2) => f.args[2] = 450
        /\ loc["c1"].tx # 0 => txs[loc["c1"].tx].func = f

\* 4.35 with two decimals was submitted as 435: the float product is
\* 434.99999999999994
C12_Witness ==
  /\ Giving("c1")
  /\ loc["c1"].tx # 0
  /\ call["c1"].value.digits = 435
  /\ txs[loc["c1"].tx].func.args[2] = 435
  /\ txs[loc["c1"].tx].func.args[3] = 2
\* C13: the feedback hash give_feedback passes to giveFeedback has 32
\* bytes: 32 zero bytes where no feedback_hash was given, and otherwise the
\* 32 bytes the given hexadecimal text denotes, with or without a leading
\* 0x.
C13_HashWord ==
  Giving("c1") =>
    LET h == call["c1"].feedback_hash
        b == loc["c1"].func.args[8]
        t == IF StartsWith(h.s, <<48, 120>>) THEN Drop(h.s, 2) ELSE h.s
    IN  /\ Len(b) = 32
        /\ h = PyNone => \A k \in 1..32 : b[k] = 0
        /\ h # PyNone =>
             /\ Len(t) = 64
             /\ \A k \in 1..32 :
                  b[k] = HexVal(t[2 * k - 1]) * 16 + HexVal(t[2 * k])
        /\ loc["c1"].tx # 0 => txs[loc["c1"].tx].func.args[8] = b

\* a hash written without 0x was submitted as its 32 bytes, each 0xcd
C13_Witness ==
  /\ Giving("c1")
  /\ loc["c1"].tx # 0
  /\ call["c1"].feedback_hash # PyNone
  /\ call["c1"].feedback_hash.s[1] = 99
  /\ txs[loc["c1"].tx].func.args[8] = [k \in 1..32 |-> 205]

-----------------------------------------------------------------------------
(* register_agent                                                          *)

\* the value a dict holds under a key, None where it has no such key
Field(d, key) ==
  IF \E n \in 1..Len(d.items) : d.items[n][1] = key
    THEN d.items[CHOOSE n \in 1..Len(d.items) : d.items[n][1] = key][2]
  ELSE PyNone

\* the metadata a submitted URI decodes to has the name and the type
NamedMetadata(uri, name) ==
  /\ StartsWith(uri, DataUriPrefix)
  /\ parse_data_uri(uri).kind = "return"
  /\ parse_data_uri(uri).val.t = "dict"
  /\ Field(parse_data_uri(uri).val, <<110, 97, 109, 101>>) = name
  /\ Field(parse_data_uri(uri).val, <<116, 121, 112, 101>>)
       = PyStr(RegistrationType)

\* C14: the register call of register_agent carries a data URI that decodes
\* to metadata with the given name and the schema type; the record it
\* returns has a tx_hash and, where the receipt holds a Transfer log with
\* four topics, an agent_id that is not None.
C14_RegisterAgent ==
  call["c1"].op = "register_agent" =>
    /\ pc["c1"] # "idle" =>
         /\ loc["c1"].func.name = "register"
         /\ Len(loc["c1"].func.args) = 1
         /\ NamedMetadata(loc["c1"].func.args[1], call["c1"].name)
         /\ loc["c1"].tx # 0 => txs[loc["c1"].tx].func = loc["c1"].func
    /\ (pc["c1"] = "idle" /\ result["c1"].kind = "return") =>
         /\ result["c1"].val.tx_hash = TxHashHex(loc["c1"].tx)
         /\ Qualifying(loc["c1"].logs) # {} =>
              result["c1"].val.agent_id # PyNone

-----------------------------------------------------------------------------
(* The network lookup, checked under SpecNetwork                           *)

\* a and b are the same text but for the case of their ASCII letters
SameButCase(a, b) ==
  /\ Len(a) = Len(b)
  /\ \A i \in 1..Len(a) :
       \/ a[i] = b[i]
       \/ a[i] \in 65..90 /\ b[i] = a[i] + 32
       \/ b[i] \in 65..90 /\ a[i] = b[i] + 32

\* the configured name that a name is a casing of, the name itself if none
Configured(name) ==
  IF \E n \in {Mainnet, Sepolia} : SameButCase(name, n)
    THEN CHOOSE n \in {Mainnet, Sepolia} : SameButCase(name, n)
  ELSE name

\* the error is the ValueError that lists the valid names
IsUnknownNetwork(r) ==
  /\ r.kind = "raise"
  /\ r.err[1] = "ValueError"
  /\ r.err[2] = "Unknown network: "
  /\ r.err[5] = <<109, 97, 105, 110, 110, 101, 116, 44, 32, 115, 101, 112,
                  111, 108, 105, 97>>

\* C15: get_network gives every casing of a configured name the
\* configuration of that name, get_contracts gives the contracts field of
\* what get_network gives, both fail for any other name with the
\* unknown-network error that lists the valid names; creating a client
\* fails the same way for such a name and stores the lowered name
\* otherwise.
C15_NetworkLookup ==
  (/\ call["c1"].op \in {"get_network", "get_contracts", "new_client"}
   /\ result["c1"] # NoResult) =>
    LET name == call["c1"].name
        r == result["c1"]
        known == Configured(name) \in {Mainnet, Sepolia}
    IN  /\ ~known => IsUnknownNetwork(r)
        /\ (~known /\ call["c1"].op # "new_client") => r.err[3] = name
        /\ (known /\ call["c1"].op = "get_network") =>
             r = Return(NETWORKS[Configured(name)])
        /\ (known /\ call["c1"].op = "get_contracts") =>
             /\ r.kind = "return"
             /\ r.val = get_network(name).val.contracts
             /\ r.val = NETWORKS[Configured(name)].contracts
        /\ (known /\ call["c1"].op = "new_client") =>
             /\ r.kind = "return"
             /\ r.val.network = Configured(name)
             /\ network = Configured(name)
             /\ r.val.contracts = NETWORKS[Configured(name)].contracts

\* get_network("MAINNET") gave the mainnet configuration
C15_Witness ==
  /\ call["c1"].op = "get_network"
  /\ call["c1"].name = <<77, 65, 73, 78, 78, 69, 84>>
  /\ result["c1"] = Return(NETWORKS[Mainnet])
  /\ result["c1"].val.chain_id = 1

-----------------------------------------------------------------------------
(* The metadata builder, checked under SpecNetwork                         *)

Built(c) == call[c].op = "create_registration_metadata" /\ result[c] # NoResult

\* the keys of a dict in their order
Keys(d) == [n \in 1..Len(d.items) |-> d.items[n][1]]

MetadataKeys ==
  << <<116, 121, 112, 101>>, <<110, 97, 109, 101>>,
     <<100, 101, 115, 99, 114, 105, 112, 116, 105, 111, 110>>,
     <<105, 109, 97, 103, 101>>,
     <<115, 101, 114, 118, 105, 99, 101, 115>>,
     <<115, 117, 112, 112, 111, 114, 116, 101, 100, 84, 114, 117, 115,
       116>> >>

\* C16: create_registration_metadata gives a dict of type, name,
\* description, image, services and supportedTrust; type is the schema URI,
\* name, description and image are as given, services and supportedTrust
\* are [] and ["reputation"] where not given and the given value, unchanged,
\* where given.
C16_Builder ==
  Built("c1") =>
    LET a == call["c1"]
        d == result["c1"].val
    IN  /\ result["c1"].kind = "return"
        /\ d.t = "dict"
        /\ Keys(d) = MetadataKeys
        /\ Field(d, MetadataKeys[1]) = PyStr(RegistrationType)
        /\ Field(d, MetadataKeys[2]) = a.name
        /\ Field(d, MetadataKeys[3]) = a.description
        /\ Field(d, MetadataKeys[4]) = a.image
        /\ Field(d, MetadataKeys[5])
             = IF a.services = PyNone THEN PyList(<< >>) ELSE a.services
        /\ Field(d, MetadataKeys[6])
             = IF a.supported_trust = PyNone
                 THEN PyList(<<PyStr(<<114, 101, 112, 117, 116, 97, 116, 105,
                                       111, 110>>)>>)
               ELSE a.supported_trust

-----------------------------------------------------------------------------
(* The name of a registration                                              *)

\* C17: register_agent called with the empty name builds no metadata and
\* submits no registration: it raises before a register call is built.
C17_NameRequired ==
  (call["c1"].op = "register_agent" /\ call["c1"].name = PyStr(<< >>)) =>
    /\ pc["c1"] = "idle"
    /\ result["c1"].kind = "raise"
    /\ loc["c1"].func.name # "register"
    /\ loc["c1"].tx = 0

-----------------------------------------------------------------------------
(* The output of the command line, checked under SpecCli                   *)

Ended(c) == call[c].op = "cli" /\ result[c] # NoResult

\* what an invocation printed
Prints(c) == result[c].val.prints

\* a print is an error payload: a line on stderr, a JSON object with an
\* error field, or the line saying that the agent was not found
IsError(item) ==
  \/ item.stream = "stderr"
  \/ item.kind = "json" /\ \E n \in 1..Len(item.body) : item.body[n][1] = "error"
  \/ item.kind = "text" /\ item.body[1] = "Agent {id} not found on {network}"

\* C18: an invocation of agent, exists, owner, register, networks or
\* contracts prints a success payload or an error payload, never both; with
\* --json it prints one JSON object, and an error object has the error
\* field and no other.
C18_OneShape ==
  Ended("c1") =>
    LET p == Prints("c1")
        errors == {n \in 1..Len(p) : IsError(p[n])}
    IN  /\ p # << >>
        /\ errors = {} \/ errors = 1..Len(p)
        /\ errors = {} <=> result["c1"].val.code = 0
        /\ \A n \in 1..Len(p) :
             (IsError(p[n]) /\ p[n].kind = "json") =>
               /\ Len(p[n].body) = 1
               /\ Len(p) = 1

-----------------------------------------------------------------------------
(* The order of the steps of a write method, checked under Spec            *)

LocalSteps == {"derive_signer", "build_call"}

\* the calls to the node of a write method, in the order of the code
NodeCalls ==
  <<"get_transaction_count", "gas_price", "send_raw_transaction",
    "wait_for_transaction_receipt", "get_transaction_receipt">>

\* the names of the steps caller c has taken, the local ones left out
NodeSteps(c) ==
  LET node == SelectSeq(trace[c], LAMBDA s : s.call \notin LocalSteps)
  IN  [k \in 1..Len(node) |-> node[k].call]

\* the key, with 0x before it if it has none, is the key of no account
Malformed(private_key) ==
  /\ ~from_key(private_key).ok
  /\ ~from_key(<<48, 120>> \o private_key).ok

\* the steps of caller c up to the k-th
Before(c, k) == {trace[c][j].call : j \in 1..(k - 1)}

\* what holds of the steps whatever the order of the two local ones: the
\* local steps come first and both succeed before the node is called; the
\* node is called for the nonce, the gas price, the submission, the wait
\* and (register) the receipt, in that order, each once at most and none
\* after a failure; a malformed key ends the operation with no call to the
\* node; a result is returned only after the wait has ended well
StepsInOrder(c) ==
  LET t == trace[c]
  IN  /\ \A k \in 1..Len(t) :
           t[k].call \in LocalSteps =>
             \A j \in 1..k : t[j].call \in LocalSteps
      /\ NodeSteps(c) = SubSeq(NodeCalls, 1, Len(NodeSteps(c)))
      /\ NodeSteps(c) # << >> =>
           /\ \E k \in 1..Len(t) : t[k] = DeriveSigner("ok")
           /\ \E k \in 1..Len(t) : t[k] = BuildCall("ok")
      /\ \A k \in 1..Len(t) : t[k].out # "ok" => k = Len(t)
      /\ Malformed(call[c].private_key) =>
           /\ NodeSteps(c) = << >>
           /\ loc[c].tx = 0
           /\ pc[c] = "idle" /\ result[c].kind = "raise"
      /\ loc[c].tx # 0 <=>
           \E k \in 1..Len(t) :
             t[k].call = "send_raw_transaction" /\ t[k].out = "ok"
      /\ result[c].kind = "return" =>
           /\ Len(NodeSteps(c)) >= 4
           /\ \E k \in 1..Len(t) :
                /\ t[k].call = "wait_for_transaction_receipt"
                /\ t[k].out = "ok"

\* C19 as amended: register derives the signer and then builds the call,
\* set_agent_uri and give_feedback build the call and then derive the
\* signer; all of them then fetch the nonce and the gas price, submit
\* once, wait for the receipt and return, in that order, and a malformed
\* key fails them before any call to the node.
C19_StepOrder ==
  call["c1"].op \in WriteOps =>
    /\ StepsInOrder("c1")
    /\ \A k \in 1..Len(trace["c1"]) :
         /\ (/\ trace["c1"][k].call = "build_call"
             /\ call["c1"].op \in {"register", "register_agent"}) =>
              "derive_signer" \in Before("c1", k)
         /\ (/\ trace["c1"][k].call = "derive_signer"
             /\ call["c1"].op \in {"set_agent_uri", "give_feedback"}) =>
              "build_call" \in Before("c1", k)

\* set_agent_uri returned after the six steps, the call built first
C19_Witness ==
  /\ call["c1"].op = "set_agent_uri"
  /\ result["c1"].kind = "return"
  /\ [k \in 1..Len(trace["c1"]) |-> trace["c1"][k].call]
       = <<"build_call", "derive_signer", "get_transaction_count",
           "gas_price", "send_raw_transaction",
           "wait_for_transaction_receipt">>

\* C19 as stated: every write operation derives the signer, builds the
\* call, fetches the nonce and the gas price, submits once, waits for the
\* receipt and returns, in that order, and a malformed key fails it before
\* any call to the node.
C19_SignerFirst ==
  call["c1"].op \in WriteOps =>
    /\ StepsInOrder("c1")
    /\ \A k \in 1..Len(trace["c1"]) :
         trace["c1"][k].call = "build_call" =>
           "derive_signer" \in Before("c1", k)

-----------------------------------------------------------------------------
(* The nonce and the sender of a transaction, checked under Spec           *)

\* the transactions a sender submitted before the one in place i
Earlier(i) == {j \in 1..(i - 1) : txs[j].from = txs[i].from}

\* the transaction in place j is in a block
Mined(j) == txs[j].status \in {"success", "reverted"}

\* C20: a transaction submitted when every earlier transaction of its
\* sender is in a block (as it is when every earlier operation returned)
\* carries the number of those transactions as its nonce, a nonce none of
\* them has; the nonce is the transaction count the operation itself asked
\* the node for, and the sender is the address of the key the operation
\* was given.
C20_FreshNonce ==
  /\ \A i \in 1..Len(txs) :
       (\A j \in Earlier(i) : Mined(j)) =>
         /\ txs[i].nonce = Cardinality(Earlier(i))
         /\ \A j \in Earlier(i) : txs[j].nonce # txs[i].nonce
  /\ (call["c1"].op \in WriteOps /\ loc["c1"].tx # 0) =>
       /\ txs[loc["c1"].tx].from # "-"
       /\ txs[loc["c1"].tx].from
            \in {from_key(call["c1"].private_key).address,
                 from_key(<<48, 120>> \o call["c1"].private_key).address}
       /\ \E k \in 1..Len(trace["c1"]) :
            /\ trace["c1"][k].call = "get_transaction_count"
            /\ trace["c1"][k].arg = txs[loc["c1"].tx].from
            /\ trace["c1"][k].out = "ok"
            /\ trace["c1"][k].ans = txs[loc["c1"].tx].nonce

\* the second operation of a signer returned: its transaction has nonce 1,
\* the first has nonce 0, and both are in a block
C20_Witness ==
  /\ call["c1"].op \in WriteOps
  /\ result["c1"].kind = "return"
  /\ loc["c1"].tx = 2
  /\ txs[1].from = txs[2].from
  /\ Mined(1) /\ Mined(2)
  /\ txs[1].nonce = 0 /\ txs[2].nonce = 1


-----------------------------------------------------------------------------
(* C21: the write path takes no lock                                       *)

\* caller c is in _build_and_send_tx past the nonce it fetched, and the
\* transaction it sent, if it sent one, is in no block yet
Holding(c) ==
  /\ pc[c] \in {"gasprice", "send", "wait"}
  /\ loc[c].tx # 0 => txs[loc[c].tx].status \in {"pending", "dropped"}

\* C21: no step of a write method waits for the other caller: a caller that
\* is idle can start set_agent_uri, one that is about to fetch its nonce can
\* fetch it and one that is about to send can send, wherever the other
\* caller is; a transaction sent carries the nonce its caller fetched, so
\* two callers that fetched the same nonce for one signer send it twice
C21_NoLock ==
  /\ \A c \in Callers :
       /\ (pc[c] = "idle" /\ result[c] = NoResult /\ Len(txs) < MaxTx)
            => ENABLED SetAgentUriBy(c)
       /\ pc[c] = "nonce" => ENABLED FetchNonce(c)
       /\ pc[c] = "send" => ENABLED Send(c)
       /\ (pc[c] = "wait")
            => /\ txs[loc[c].tx].nonce = loc[c].nonce
               /\ txs[loc[c].tx].from = loc[c].address
  /\ \A c, d \in Callers :
       (/\ c # d
        /\ pc[c] = "wait"
        /\ pc[d] = "wait"
        /\ loc[c].address = loc[d].address
        /\ loc[c].nonce = loc[d].nonce)
         => /\ loc[c].tx # loc[d].tx
            /\ txs[loc[c].tx].nonce = txs[loc[d].tx].nonce

\* both callers, for one signer, fetched the same nonce and sent it, before
\* either transaction was in a block
C21_Witness ==
  /\ Holding("c1")
  /\ Holding("c2")
  /\ pc["c1"] = "wait"
  /\ pc["c2"] = "wait"
  /\ loc["c1"].tx # loc["c2"].tx
  /\ txs[loc["c1"].tx].from = txs[loc["c2"].tx].from
  /\ txs[loc["c1"].tx].nonce = txs[loc["c2"].tx].nonce


-----------------------------------------------------------------------------
(* C22: the call register builds                                           *)

\* caller c is in register, past the building of its call
Registering(c) == call[c].op = "register" /\ loc[c].func.name = "register"

\* C22: register given a metadata object builds register(agentURI) with the
\* data URI of the object, given a URI string builds register(agentURI) with
\* that string, given nothing builds register(); never a call of two
\* arguments; the gas limit is 500000 and the transaction sent is that call,
\* while set_agent_uri and give_feedback use 300000.
C22_CallShape ==
  /\ Registering("c1") =>
       LET given == call["c1"].agent_uri_or_metadata
           func == loc["c1"].func
       IN  /\ given.t = "dict" => func.args = <<create_data_uri(given)>>
           /\ given.t = "str" => func.args = <<given.s>>
           /\ given = PyNone => func.args = << >>
           /\ Len(func.args) <= 1
           /\ loc["c1"].gas = 500000
           /\ loc["c1"].tx # 0 =>
                /\ txs[loc["c1"].tx].func = func
                /\ txs[loc["c1"].tx].gas = 500000
           /\ Cardinality({k \in 1..Len(trace["c1"]) :
                             trace["c1"][k].call = "send_raw_transaction"}) <= 1
  /\ (call["c1"].op \in {"set_agent_uri", "give_feedback"}
       /\ loc["c1"].func.name \in {"setAgentURI", "giveFeedback"})
        => loc["c1"].gas = 300000


-----------------------------------------------------------------------------
(* C23: the configuration of a client, checked under SpecClient            *)

\* the step is a read method of caller c that ran to its end
ReadStep(c) ==
  /\ result[c] = NoResult
  /\ result'[c] # NoResult
  /\ call'[c].op \in ReadOps \cup {"get_network_info"}

\* C23: no step of a read or write method, ended well or not, changes the
\* network name of the client, its contract addresses or its explorer URL,
\* which stay those of the network it was constructed for; a read method
\* submits no transaction and leaves the chain as it is.
C23_Frame ==
  [][/\ network' = network
     /\ Contracts' = Contracts
     /\ Explorer' = Explorer
     /\ get_network_info' = get_network_info
     /\ network' = Sepolia
     /\ Contracts' = NETWORKS[Sepolia].contracts
     /\ ReadStep("c1") => /\ txs' = txs
                          /\ nonce' = nonce
                          /\ UNCHANGED chainVars]_vars

\* after a write that went through and one that reverted, get_network_info
\* answers with the configuration of the construction
C23_Witness ==
  /\ \E i \in 1..Len(txs) : txs[i].status = "success"
  /\ \E i \in 1..Len(txs) : txs[i].status = "reverted"
  /\ call["c1"].op = "get_network_info"
  /\ result["c1"].kind = "return"
  /\ result["c1"].val.network = Sepolia


-----------------------------------------------------------------------------
(* C24: agent_exists and get_agent, checked under SpecRead                 *)

\* what get_agent gives for the id, with the owner lookup ending as it did
\* in the trace of agent_exists when up
SameLookup(c, up) == agent_exists(call[c].agent_id, up).trace = trace[c]

\* C24: for the id agent_exists was called with, and the owner lookup ending
\* the same way, get_agent returns a record exactly when agent_exists
\* returned True, and returns None, without raising, when it returned False.
C24_Agree ==
  (call["c1"].op = "agent_exists" /\ result["c1"] # NoResult) =>
    \A up1 \in BOOLEAN, up2 \in BOOLEAN, http \in HttpAnswers :
      SameLookup("c1", up1) =>
        LET found == get_agent(call["c1"].agent_id, up1, up2, http).res
        IN  /\ found.kind = "return"
            /\ (result["c1"].val = PyBool(TRUE)) <=> (found.val # PyNone)


-----------------------------------------------------------------------------
(* C25: a write of metadata and the read after it, checked under           *)
(* SpecRoundTrip                                                           *)

\* the metadata object the write of caller c encoded
Encoded(c) ==
  IF call[c].op = "set_agent_uri" THEN call[c].new_uri_or_metadata
  ELSE create_registration_metadata(call[c].name, PyStr(<< >>), PyStr(<< >>),
                                    PyNone, PyNone)

\* register_agent or set_agent_uri with a metadata object has returned to
\* caller c for agent n
ReturnedFor(c, n) ==
  /\ pc[c] = "idle"
  /\ result[c].kind = "return"
  /\ \/ /\ call[c].op = "set_agent_uri"
        /\ call[c].new_uri_or_metadata.t = "dict"
        /\ result[c].val.agent_id = n
     \/ /\ call[c].op = "register_agent"
        /\ result[c].val.agent_id = PyInt(n)

\* the step is get_agent(n) of caller c, with its calls to the node answered
LooksUp(c, n) ==
  /\ result[c] = NoResult
  /\ result'[c] # NoResult
  /\ call'[c].op = "get_agent"
  /\ ToInt(call'[c].agent_id).ok
  /\ ToInt(call'[c].agent_id).n = n
  /\ \A k \in 1..Len(trace'[c]) :
       trace'[c][k].call \in {"ownerOf", "tokenURI"} => trace'[c][k].out = "ok"

\* C25: once register_agent or set_agent_uri with a metadata object has
\* returned for agent n, a get_agent(n) that follows returns a record whose
\* token_uri is the data URI of that object and whose metadata is the
\* object, decoded without an HTTP request.
C25_RoundTrip ==
  [][\A n \in AgentIds :
       (ReturnedFor("c1", n) /\ LooksUp("c2", n)) =>
         /\ result'["c2"].kind = "return"
         /\ result'["c2"].val # PyNone
         /\ result'["c2"].val.token_uri = PyStr(create_data_uri(Encoded("c1")))
         /\ result'["c2"].val.metadata = Encoded("c1")
         /\ \A k \in 1..Len(trace'["c2"]) :
              trace'["c2"][k].call # "http_get"]_vars

=============================================================================
